---- MODULE Spec2Model ----
(***************************************************************************)
(* Progress tracking and interaction logging of the content service.       *)
(*                                                                         *)
(* The store is the Prisma schema: ContentProgress rows, unique on         *)
(* (user_id, content_id) and referencing Content with ON DELETE CASCADE.   *)
(* Operations are the ContentService methods together with the             *)
(* ContentRepository methods they call.  content.repository.ts holds two   *)
(* definitions of ContentRepository.trackProgress (lines 298 and 1348);    *)
(* both are modelled, selected by impl \in Impls.                          *)
(*                                                                         *)
(* JavaScript undefined is UNDEF (numbers) or "undefined" (strings), SQL   *)
(* NULL is NULL (numbers, dates) or "null" (strings).  A Date is the value *)
(* of clock.  created_at / updated_at are not read by any modelled code    *)
(* and are left out of the rows.                                           *)
(***************************************************************************)
EXTENDS Integers, Sequences, FiniteSets, TLC

VARIABLES content, progress, logs, clock, lastCall, reported,
          lastCompletedAt, inflight, catalog, response

vars == <<content, progress, logs, clock, lastCall, reported,
          lastCompletedAt, inflight, catalog, response>>

\* ---------------------------------------------------------------- bounds
MaxTime == 2
MaxBatch == 2
MaxLogs == 3
MaxContent == 6

\* ------------------------------------------------------------- sentinels
UNDEF == -100
NULL == -101

\* ---------------------------------------------------------------- inputs
Users == {"u1", "u2"}
ContentIds == {"c1", "c9"}
ExistingContent == {"c1"}
Impls == {1, 2}

ProgressStatus == {"not_started", "in_progress", "completed", "paused"}

D(s, p, t, l, r, f) ==
    [status |-> s, progressPercentage |-> p, timeSpentSeconds |-> t,
     lastPositionSeconds |-> l, completionRating |-> r,
     completionFeedback |-> f]

ValidTrackInputs ==
    { D(s, UNDEF, UNDEF, UNDEF, UNDEF, "undefined") :
          s \in ProgressStatus \cup {"undefined"} }
    \cup { D("in_progress", 50, UNDEF, UNDEF, UNDEF, "undefined"),
           D("undefined", UNDEF, 30, 7, UNDEF, "undefined"),
           D("completed", 100, UNDEF, UNDEF, 3, "ok") }

InvalidTrackInputs ==
    { D("completed", p, UNDEF, UNDEF, UNDEF, "undefined") : p \in {-1, 101} }
    \cup { D("completed", UNDEF, -1, UNDEF, UNDEF, "undefined"),
           D("completed", UNDEF, UNDEF, -1, UNDEF, "undefined") }
    \cup { D("completed", UNDEF, UNDEF, UNDEF, r, "undefined") : r \in {0, 6} }

TrackInputs == ValidTrackInputs \cup InvalidTrackInputs

\* The calls of trackUserProgress the model makes: user u1 reports content c1
\* with every input, the other callers with one or two inputs each.
TrackCalls ==
    ({"u1"} \X {"c1"} \X TrackInputs)
    \cup ({"u1"} \X {"c9"} \X
              { D("completed", UNDEF, UNDEF, UNDEF, UNDEF, "undefined"),
                D("undefined", UNDEF, 30, 7, UNDEF, "undefined") })
    \cup ({"u2", ""} \X {"c1"} \X
              { D("completed", 100, UNDEF, UNDEF, 3, "ok") })

\* Elements of a bulkTrackProgress batch.
I(u, c, s, p, t) ==
    [userId |-> u, contentId |-> c, status |-> s, progressPercentage |-> p,
     timeSpentSeconds |-> t]

BulkItems ==
    { I("u1", "c1", "completed", 100, 30),
      I("u2", "c1", "in_progress", 50, 0),
      I("u1", "c1", "paused", 101, 0),
      I("u2", "c1", "in_progress", 50, -1),
      I("u1", "c9", "completed", 100, 30),
      I("", "c1", "in_progress", 50, 0) }

RECURSIVE SeqsUpTo(_, _)
SeqsUpTo(S, n) ==
    IF n = 0 THEN { <<>> }
    ELSE LET shorter == SeqsUpTo(S, n - 1) IN
         shorter \cup { Append(q, x) : q \in { r \in shorter : Len(r) = n - 1 },
                                        x \in S }

Batches == SeqsUpTo(BulkItems, MaxBatch)

\* ------------------------------------------------------------ the store
\* UserProgressStatus enum of the schema and the statusMap of trackProgress.
statusMap(s) ==
    CASE s = "not_started" -> "NOT_STARTED"
      [] s = "in_progress" -> "IN_PROGRESS"
      [] s = "completed" -> "COMPLETED"
      [] s = "paused" -> "PAUSED"

\* String.prototype.toUpperCase followed by replace('-', '_'), on the
\* strings the callers can pass.
toUpperCase(s) ==
    CASE s = "not_started" -> "NOT_STARTED"
      [] s = "in_progress" -> "IN_PROGRESS"
      [] s = "completed" -> "COMPLETED"
      [] s = "paused" -> "PAUSED"
      [] OTHER -> s

RowsOf(rows, userId, contentId) ==
    { r \in rows : r.user_id = userId /\ r.content_id = contentId }

\* prisma update semantics: an undefined value leaves the column alone.
ApplyUpdate(row, upd) ==
    [ user_id |-> row.user_id,
      content_id |-> row.content_id,
      status |-> IF upd.status = "undefined" THEN row.status ELSE upd.status,
      progress_percentage |->
          IF upd.progress_percentage = UNDEF THEN row.progress_percentage
          ELSE upd.progress_percentage,
      time_spent_seconds |->
          IF upd.time_spent_seconds = UNDEF THEN row.time_spent_seconds
          ELSE upd.time_spent_seconds,
      last_position_seconds |->
          IF upd.last_position_seconds = UNDEF THEN row.last_position_seconds
          ELSE upd.last_position_seconds,
      completion_rating |->
          IF upd.completion_rating = UNDEF THEN row.completion_rating
          ELSE upd.completion_rating,
      completion_feedback |->
          IF upd.completion_feedback = "undefined" THEN row.completion_feedback
          ELSE upd.completion_feedback,
      first_accessed_at |->
          IF upd.first_accessed_at = UNDEF THEN row.first_accessed_at
          ELSE upd.first_accessed_at,
      last_accessed_at |->
          IF upd.last_accessed_at = UNDEF THEN row.last_accessed_at
          ELSE upd.last_accessed_at,
      completed_at |->
          IF upd.completed_at = UNDEF THEN row.completed_at
          ELSE upd.completed_at ]

\* prisma create semantics: an undefined value takes the column default of
\* model ContentProgress (0 for the counters, NULL for the optional columns).
ApplyCreate(userId, contentId, cre) ==
    [ user_id |-> userId,
      content_id |-> contentId,
      status |-> IF cre.status = "undefined" THEN "NOT_STARTED" ELSE cre.status,
      progress_percentage |->
          IF cre.progress_percentage = UNDEF THEN 0 ELSE cre.progress_percentage,
      time_spent_seconds |->
          IF cre.time_spent_seconds = UNDEF THEN 0 ELSE cre.time_spent_seconds,
      last_position_seconds |->
          IF cre.last_position_seconds = UNDEF THEN 0
          ELSE cre.last_position_seconds,
      completion_rating |->
          IF cre.completion_rating = UNDEF THEN NULL ELSE cre.completion_rating,
      completion_feedback |->
          IF cre.completion_feedback = "undefined" THEN "null"
          ELSE cre.completion_feedback,
      first_accessed_at |->
          IF cre.first_accessed_at = UNDEF THEN NULL ELSE cre.first_accessed_at,
      last_accessed_at |->
          IF cre.last_accessed_at = UNDEF THEN NULL ELSE cre.last_accessed_at,
      completed_at |->
          IF cre.completed_at = UNDEF THEN NULL ELSE cre.completed_at ]

\* An upsert that never looks for the existing row.
UpsertAlwaysInsert(rows, contents, userId, contentId, upd, cre) ==
    IF contentId \notin contents
    THEN [ rows |-> rows, error |-> "Foreign key constraint failed",
           created |-> FALSE ]
    ELSE [ rows |-> rows \cup { ApplyCreate(userId, contentId, cre) },
           error |-> "ok", created |-> TRUE ]

\* A plain create in place of the upsert: the unique index rejects the
\* second insert of a pair.
UpsertCreateOnly(rows, contents, userId, contentId, upd, cre) ==
    IF RowsOf(rows, userId, contentId) # {}
    THEN [ rows |-> rows, error |-> "Unique constraint failed",
           created |-> FALSE ]
    ELSE IF contentId \notin contents
    THEN [ rows |-> rows, error |-> "Foreign key constraint failed",
           created |-> FALSE ]
    ELSE [ rows |-> rows \cup { ApplyCreate(userId, contentId, cre) },
           error |-> "ok", created |-> TRUE ]

\* contentProgress.upsert on the unique key (user_id, content_id): update the
\* row if there is one, insert otherwise; the insert is rejected by the
\* foreign key when content_id references no Content row.
Upsert(rows, contents, userId, contentId, upd, cre) ==
    LET old == RowsOf(rows, userId, contentId) IN
    IF old # {}
    THEN [ rows |-> (rows \ old) \cup { ApplyUpdate(r, upd) : r \in old },
           error |-> "ok", created |-> FALSE ]
    ELSE IF contentId \notin contents
    THEN [ rows |-> rows, error |-> "Foreign key constraint failed",
           created |-> FALSE ]
    ELSE [ rows |-> rows \cup { ApplyCreate(userId, contentId, cre) },
           error |-> "ok", created |-> TRUE ]

\* ------------------------------------------- ContentRepository.trackProgress
\* JavaScript x || 0 and x ?? 0 on a number or undefined.
OrZero(x) == IF x = UNDEF \/ x = 0 THEN 0 ELSE x

NullishZero(x) == IF x = UNDEF \/ x = NULL THEN 0 ELSE x

Truthy(s) == s # "undefined" /\ s # "null" /\ s # ""

\* updateData that does not refresh completed_at.
updateDataKeepsCompletedAt(data, now) ==
    [ status |-> IF Truthy(data.status) THEN statusMap(data.status)
                 ELSE "undefined",
      progress_percentage |-> data.progressPercentage,
      time_spent_seconds |-> data.timeSpentSeconds,
      last_position_seconds |-> data.lastPositionSeconds,
      completion_rating |-> data.completionRating,
      completion_feedback |-> data.completionFeedback,
      first_accessed_at |-> UNDEF,
      last_accessed_at |-> now,
      completed_at |-> UNDEF ]

\* updateData of the first definition (content.repository.ts:309-329).
updateData(data, now) ==
    [ status |-> IF Truthy(data.status) THEN statusMap(data.status)
                 ELSE "undefined",
      progress_percentage |-> data.progressPercentage,
      time_spent_seconds |-> data.timeSpentSeconds,
      last_position_seconds |-> data.lastPositionSeconds,
      completion_rating |-> data.completionRating,
      completion_feedback |-> data.completionFeedback,
      first_accessed_at |-> UNDEF,
      last_accessed_at |-> now,
      completed_at |-> IF data.status = "completed" THEN now ELSE UNDEF ]

\* create: without first_accessed_at.
createDataNoFirstAccess(data, now) ==
    [ status |-> IF Truthy(data.status) THEN statusMap(data.status)
                 ELSE "NOT_STARTED",
      progress_percentage |-> OrZero(data.progressPercentage),
      time_spent_seconds |-> OrZero(data.timeSpentSeconds),
      last_position_seconds |-> OrZero(data.lastPositionSeconds),
      completion_rating |-> data.completionRating,
      completion_feedback |-> data.completionFeedback,
      first_accessed_at |-> UNDEF,
      last_accessed_at |-> now,
      completed_at |-> IF data.status = "completed" THEN now ELSE NULL ]

\* create: branch of the first definition (content.repository.ts:339-351).
createData(data, now) ==
    [ status |-> IF Truthy(data.status) THEN statusMap(data.status)
                 ELSE "NOT_STARTED",
      progress_percentage |-> OrZero(data.progressPercentage),
      time_spent_seconds |-> OrZero(data.timeSpentSeconds),
      last_position_seconds |-> OrZero(data.lastPositionSeconds),
      completion_rating |-> data.completionRating,
      completion_feedback |-> data.completionFeedback,
      first_accessed_at |-> now,
      last_accessed_at |-> now,
      completed_at |-> IF data.status = "completed" THEN now ELSE NULL ]

trackProgress(rows, contents, userId, contentId, data, now) ==
    Upsert(rows, contents, userId, contentId,
           updateData(data, now), createData(data, now))

\* safeData of the second definition (content.repository.ts:1375-1382).
repoSafeData(data) ==
    [ status |-> IF Truthy(data.status) THEN data.status ELSE "not_started",
      progressPercentage |-> NullishZero(data.progressPercentage),
      timeSpentSeconds |-> NullishZero(data.timeSpentSeconds),
      lastPositionSeconds |-> NullishZero(data.lastPositionSeconds),
      completionRating |-> data.completionRating,
      completionFeedback |-> data.completionFeedback ]

updateDataV2(data, now) ==
    LET safeData == repoSafeData(data) IN
    [ status |-> IF Truthy(safeData.status) THEN toUpperCase(safeData.status)
                 ELSE "undefined",
      progress_percentage |-> safeData.progressPercentage,
      time_spent_seconds |-> safeData.timeSpentSeconds,
      last_position_seconds |-> safeData.lastPositionSeconds,
      completion_rating |-> safeData.completionRating,
      completion_feedback |-> safeData.completionFeedback,
      first_accessed_at |-> UNDEF,
      last_accessed_at |-> now,
      completed_at |-> IF safeData.status = "completed" THEN now ELSE UNDEF ]

createDataV2(data, now) ==
    LET safeData == repoSafeData(data) IN
    [ status |-> toUpperCase(safeData.status),
      progress_percentage |-> safeData.progressPercentage,
      time_spent_seconds |-> safeData.timeSpentSeconds,
      last_position_seconds |-> safeData.lastPositionSeconds,
      completion_rating |-> safeData.completionRating,
      completion_feedback |-> safeData.completionFeedback,
      first_accessed_at |-> now,
      last_accessed_at |-> now,
      completed_at |-> IF safeData.status = "completed" THEN now ELSE NULL ]

\* The content.findUnique pre-check of the second definition
\* (content.repository.ts:1360-1370); "ok" lets the call go on to the upsert.
contentExists(contents, userId, contentId) ==
    IF userId = "" \/ contentId = ""
    THEN "User ID and Content ID are required"
    ELSE IF contentId \notin contents
    THEN "Content does not exist"
    ELSE "ok"

trackProgressV2(rows, contents, userId, contentId, data, now) ==
    LET pre == contentExists(contents, userId, contentId) IN
    IF pre # "ok"
    THEN [ rows |-> rows, error |-> pre, created |-> FALSE ]
    ELSE Upsert(rows, contents, userId, contentId,
                updateDataV2(data, now), createDataV2(data, now))

\* --------------------------------------- ContentService.trackUserProgress
\* safeData of the service (content.service.ts:140-149).
safeData(progressData) ==
    [ status |-> IF Truthy(progressData.status) THEN progressData.status
                 ELSE "not_started",
      progressPercentage |-> NullishZero(progressData.progressPercentage),
      timeSpentSeconds |-> NullishZero(progressData.timeSpentSeconds),
      lastPositionSeconds |-> NullishZero(progressData.lastPositionSeconds),
      completionRating |-> progressData.completionRating,
      completionFeedback |-> progressData.completionFeedback ]

\* The checks without the upper bound of progressPercentage.
validateProgressNoUpperBound(userId, contentId, safe) ==
    IF userId = "" \/ contentId = ""
    THEN "userId and contentId are required"
    ELSE IF safe.progressPercentage < 0
    THEN "Progress percentage must be between 0 and 100"
    ELSE IF safe.timeSpentSeconds < 0
    THEN "Time spent cannot be negative"
    ELSE IF safe.lastPositionSeconds < 0
    THEN "Last position cannot be negative"
    ELSE IF safe.completionRating # UNDEF
            /\ (safe.completionRating < 1 \/ safe.completionRating > 5)
    THEN "Completion rating must be between 1 and 5"
    ELSE "ok"

\* The checks of content.service.ts:135-167, in the order of the code; the
\* value is the message of the Error thrown, or "ok".
validateProgress(userId, contentId, safe) ==
    IF userId = "" \/ contentId = ""
    THEN "userId and contentId are required"
    ELSE IF safe.progressPercentage < 0 \/ safe.progressPercentage > 100
    THEN "Progress percentage must be between 0 and 100"
    ELSE IF safe.timeSpentSeconds < 0
    THEN "Time spent cannot be negative"
    ELSE IF safe.lastPositionSeconds < 0
    THEN "Last position cannot be negative"
    ELSE IF safe.completionRating # UNDEF
            /\ (safe.completionRating < 1 \/ safe.completionRating > 5)
    THEN "Completion rating must be between 1 and 5"
    ELSE "ok"

trackUserProgress(rows, contents, userId, contentId, progressData, now, impl) ==
    LET safe == safeData(progressData)
        check == validateProgress(userId, contentId, safe)
    IN  IF check # "ok"
        THEN [ rows |-> rows, error |-> check, created |-> FALSE ]
        ELSE IF impl = 1
        THEN trackProgress(rows, contents, userId, contentId, safe, now)
        ELSE trackProgressV2(rows, contents, userId, contentId, safe, now)

\* ------------------------------------------------------------- the state
NoData == D("undefined", UNDEF, UNDEF, UNDEF, UNDEF, "undefined")

Keys == Users \X ContentIds

\* The Topic and ContentTopic tables and the counters of the Content rows:
\* no topic yet, the counters at their column defaults.
NoTopics ==
    [ topics |-> {}, contentTopics |-> <<>>,
      stats |-> [ c \in ExistingContent |->
                    [ view_count |-> 0, completion_count |-> 0,
                      rating_average |-> 0, is_published |-> FALSE ] ] ]

\* No analytics query has been answered yet.
NoResponse == [ op |-> "none" ]

Init ==
    /\ content = ExistingContent
    /\ progress = {}
    /\ logs = <<>>
    /\ clock = 1
    /\ lastCall = [ op |-> "none", userId |-> "", contentId |-> "",
                    data |-> NoData, result |-> "ok", created |-> FALSE ]
    /\ reported = {}
    /\ lastCompletedAt = [ k \in Keys |-> NULL ]
    /\ inflight = <<>>
    /\ catalog = NoTopics
    /\ response = NoResponse

\* Time passes between calls; new Date() reads clock.
Tick ==
    /\ clock < MaxTime
    /\ clock' = clock + 1
    /\ UNCHANGED <<content, progress, logs, lastCall, reported,
                   lastCompletedAt, inflight,
                   catalog, response>>

\* One awaited call of ContentService.trackUserProgress.
TrackUserProgress(userId, contentId, data, impl) ==
    LET res == trackUserProgress(progress, content, userId, contentId, data,
                                 clock, impl)
    IN  /\ progress' = res.rows
        /\ lastCall' = [ op |-> "trackProgress", userId |-> userId,
                         contentId |-> contentId, data |-> data,
                         result |-> res.error, created |-> res.created ]
        /\ reported' = IF res.error = "ok"
                       THEN reported \cup { <<userId, contentId>> }
                       ELSE reported
        /\ lastCompletedAt' =
               IF res.error = "ok" /\ data.status = "completed"
               THEN [ lastCompletedAt EXCEPT ![<<userId, contentId>>] = clock ]
               ELSE lastCompletedAt
        /\ UNCHANGED <<content, logs, clock, inflight,
                       catalog, response>>

\* ------------------------------------------- ContentService.bulkTrackProgress
\* The per-element checks without the timeSpentSeconds check.
RECURSIVE validateBulkNoTimeCheck(_, _)
validateBulkNoTimeCheck(progressData, i) ==
    IF i > Len(progressData) THEN "ok"
    ELSE LET data == progressData[i] IN
         IF data.userId = "" \/ data.contentId = ""
         THEN "userId y contentId son requeridos para cada elemento"
         ELSE IF data.progressPercentage < 0 \/ data.progressPercentage > 100
         THEN "El porcentaje de progreso debe estar entre 0 y 100"
         ELSE validateBulkNoTimeCheck(progressData, i + 1)

\* The per-element checks of content.service.ts:633-648.
RECURSIVE validateBulk(_, _)
validateBulk(progressData, i) ==
    IF i > Len(progressData) THEN "ok"
    ELSE LET data == progressData[i] IN
         IF data.userId = "" \/ data.contentId = ""
         THEN "userId y contentId son requeridos para cada elemento"
         ELSE IF data.progressPercentage < 0 \/ data.progressPercentage > 100
         THEN "El porcentaje de progreso debe estar entre 0 y 100"
         ELSE IF data.timeSpentSeconds < 0
         THEN "El tiempo dedicado no puede ser negativo"
         ELSE validateBulk(progressData, i + 1)

\* update: and create: of the upsert in ContentRepository.bulkTrackProgress
\* (content.repository.ts:854-869); neither sets completed_at.
bulkUpdateData(data, now) ==
    [ status |-> toUpperCase(data.status),
      progress_percentage |-> data.progressPercentage,
      time_spent_seconds |-> data.timeSpentSeconds,
      last_position_seconds |-> UNDEF,
      completion_rating |-> UNDEF,
      completion_feedback |-> "undefined",
      first_accessed_at |-> UNDEF,
      last_accessed_at |-> now,
      completed_at |-> UNDEF ]

bulkCreateData(data, now) ==
    [ status |-> toUpperCase(data.status),
      progress_percentage |-> data.progressPercentage,
      time_spent_seconds |-> data.timeSpentSeconds,
      last_position_seconds |-> UNDEF,
      completion_rating |-> UNDEF,
      completion_feedback |-> "undefined",
      first_accessed_at |-> now,
      last_accessed_at |-> now,
      completed_at |-> UNDEF ]

\* The loop of upserts inside prisma.$transaction: the first upsert that
\* throws aborts the transaction, and the caller rolls back to the rows it
\* started from.
RECURSIVE bulkUpserts(_, _, _, _, _)
bulkUpserts(rows, contents, progressData, i, now) ==
    IF i > Len(progressData)
    THEN [ rows |-> rows, error |-> "ok", created |-> FALSE ]
    ELSE LET data == progressData[i]
             res == Upsert(rows, contents, data.userId, data.contentId,
                           bulkUpdateData(data, now), bulkCreateData(data, now))
         IN  IF res.error # "ok" THEN res
             ELSE bulkUpserts(res.rows, contents, progressData, i + 1, now)

bulkTrackProgress(rows, contents, progressData, now) ==
    IF Len(progressData) = 0
    THEN [ rows |-> rows, error |-> "Los datos de progreso son requeridos" ]
    ELSE LET check == validateBulk(progressData, 1) IN
         IF check # "ok" THEN [ rows |-> rows, error |-> check ]
         ELSE LET res == bulkUpserts(rows, contents, progressData, 1, now) IN
              IF res.error # "ok" THEN [ rows |-> rows, error |-> res.error ]
              ELSE [ rows |-> res.rows, error |-> "ok" ]

\* One awaited call of ContentService.bulkTrackProgress.
BulkTrackProgress(progressData) ==
    LET res == bulkTrackProgress(progress, content, progressData, clock) IN
    /\ progress' = res.rows
    /\ lastCall' = [ op |-> "bulkTrackProgress", userId |-> "",
                     contentId |-> "", data |-> NoData,
                     result |-> res.error, created |-> FALSE ]
    /\ reported' = IF res.error = "ok"
                   THEN reported \cup { <<progressData[i].userId,
                                          progressData[i].contentId>> :
                                        i \in 1..Len(progressData) }
                   ELSE reported
    /\ UNCHANGED <<content, logs, clock, lastCompletedAt, inflight,
                   catalog, response>>

Next ==
    \/ Tick
    \/ \E call \in TrackCalls, impl \in Impls :
          TrackUserProgress(call[1], call[2], call[3], impl)
    \/ \E progressData \in Batches : BulkTrackProgress(progressData)

Spec == Init /\ [][Next]_vars

\* ------------------------------------------------------ interaction log
E(u, c, sess, act, paa, ts, dev, plat, reason, from, stamp) ==
    [userId |-> u, contentId |-> c, sessionId |-> sess, action |-> act,
     progressAtAction |-> paa, timeSpentSeconds |-> ts, deviceType |-> dev,
     platform |-> plat, abandonmentReason |-> reason, cameFrom |-> from,
     timestamp |-> stamp]

\* The events the callers send.  timestamp is the client's own time, which
\* LogInteractionUseCase.execute passes along with the event.
LogInputs ==
    { E("u1", "c1", "s1", "start", 0, 0, "mobile", "ios", "null", "home",
        UNDEF),
      E("u1", "c1", "s1", "start", 0, 0, "mobile", "ios", "null", "home", 0),
      E("u1", "c1", "undefined", "abandon", 60, 30, "undefined", "undefined",
        "too_long", "undefined", UNDEF),
      E("u2", "c9", "s2", "complete", 100, NULL, "desktop", "web", "null",
        "null", UNDEF),
      E("u1", "c1", "s1", "pause", 40, 10, "mobile", "ios", "boring", "home",
        UNDEF),
      E("u1", "c1", "s1", "", UNDEF, UNDEF, "undefined", "undefined",
        "undefined", "undefined", UNDEF),
      E("undefined", "c1", "s1", "start", UNDEF, UNDEF, "undefined",
        "undefined", "undefined", "undefined", UNDEF) }

LogBatches == SeqsUpTo(LogInputs, MaxBatch)

\* An optional string column: undefined is stored as NULL.
Nullable(s) == IF s = "undefined" THEN "null" ELSE s

\* A logData that stores the client's timestamp when the event carries one.
logDataClientTimestamp(interaction, now) ==
    [ user_id |-> interaction.userId,
      content_id |-> interaction.contentId,
      session_id |-> interaction.sessionId,
      action |-> interaction.action,
      action_timestamp |->
          IF interaction.timestamp # UNDEF THEN interaction.timestamp ELSE now,
      progress_at_action |->
          IF interaction.progressAtAction \notin {UNDEF, NULL, 0}
          THEN interaction.progressAtAction ELSE NULL,
      time_spent_seconds |->
          IF interaction.timeSpentSeconds \in {UNDEF, NULL, 0} THEN 0
          ELSE interaction.timeSpentSeconds,
      device_type |-> Nullable(interaction.deviceType),
      platform |-> Nullable(interaction.platform),
      abandonment_reason |-> Nullable(interaction.abandonmentReason),
      came_from |-> Nullable(interaction.cameFrom) ]

\* data: of contentInteractionLog.create (content.repository.ts:383-396).
logData(interaction, now) ==
    [ user_id |-> interaction.userId,
      content_id |-> interaction.contentId,
      session_id |-> interaction.sessionId,
      action |-> interaction.action,
      action_timestamp |-> now,
      progress_at_action |->
          IF interaction.progressAtAction \notin {UNDEF, NULL, 0}
          THEN interaction.progressAtAction ELSE NULL,
      time_spent_seconds |->
          IF interaction.timeSpentSeconds \in {UNDEF, NULL, 0} THEN 0
          ELSE interaction.timeSpentSeconds,
      device_type |-> Nullable(interaction.deviceType),
      platform |-> Nullable(interaction.platform),
      abandonment_reason |-> Nullable(interaction.abandonmentReason),
      came_from |-> Nullable(interaction.cameFrom) ]

\* The required columns of model ContentInteractionLog: user_id and
\* content_id are @db.Uuid, which the empty string is not; session_id and
\* action are VarChar, which takes any string.
HasRequiredColumns(row) ==
    /\ row.user_id \notin {"undefined", "null", ""}
    /\ row.content_id \notin {"undefined", "null", ""}
    /\ row.session_id \notin {"undefined", "null"}
    /\ row.action \notin {"undefined", "null"}

\* A createMany that inserts the rows the store accepts and drops the rest.
createManySkipInvalid(table, rows) ==
    [ logs |-> table \o SelectSeq(rows, HasRequiredColumns),
      error |-> IF \E i \in 1..Len(rows) : ~HasRequiredColumns(rows[i])
                THEN "Argument is missing" ELSE "ok" ]

\* contentInteractionLog.createMany: one INSERT of all the rows.
createMany(table, rows) ==
    IF \E i \in 1..Len(rows) : ~HasRequiredColumns(rows[i])
    THEN [ logs |-> table, error |-> "Argument is missing" ]
    ELSE [ logs |-> table \o rows, error |-> "ok" ]

\* ContentService.logInteraction (content.service.ts:232-242) and
\* ContentRepository.logInteraction (content.repository.ts:380-418).
logInteraction(table, interactionData, now) ==
    LET interaction ==
            [ interactionData EXCEPT
                !.sessionId = IF Truthy(interactionData.sessionId)
                              THEN interactionData.sessionId
                              ELSE "session-generated" ]
    IN  createMany(table, << logData(interaction, now) >>)

\* The per-element check of ContentService.bulkLogInteractions
\* (content.service.ts:660-668).
RECURSIVE validateInteractions(_, _)
validateInteractions(interactions, i) ==
    IF i > Len(interactions) THEN "ok"
    ELSE IF ~Truthy(interactions[i].userId)
            \/ ~Truthy(interactions[i].contentId)
            \/ ~Truthy(interactions[i].action)
    THEN "user_id, content_id y action son requeridos para cada interaccion"
    ELSE validateInteractions(interactions, i + 1)

\* The snake_case to camelCase conversion of ContentService.bulkLogInteractions
\* (content.service.ts:669-684): every field is copied, came_from || null.
convertedInteraction(interaction) ==
    [ interaction EXCEPT
        !.cameFrom = IF Truthy(interaction.cameFrom) THEN interaction.cameFrom
                     ELSE "null" ]

\* ContentService.bulkLogInteractions and ContentRepository.bulkLogInteractions
\* (content.repository.ts:879-901).
bulkLogInteractions(table, interactions, now) ==
    IF Len(interactions) = 0
    THEN [ logs |-> table, error |-> "Las interacciones son requeridas" ]
    ELSE LET check == validateInteractions(interactions, 1) IN
         IF check # "ok" THEN [ logs |-> table, error |-> check ]
         ELSE createMany(table,
                  [ i \in 1..Len(interactions) |->
                        logData(convertedInteraction(interactions[i]), now) ])

\* A delete that cascades to the interaction log as it does to the progress.
deleteContentCascadeLogs(contents, rows, table, id) ==
    IF id \notin contents
    THEN [ content |-> contents, rows |-> rows, logs |-> table,
           error |-> "Record to delete does not exist" ]
    ELSE [ content |-> contents \ {id},
           rows |-> { r \in rows : r.content_id # id },
           logs |-> SelectSeq(table, LAMBDA l : l.content_id # id),
           error |-> "ok" ]

\* ContentService.deleteContent and ContentRepository.delete: the Content row
\* goes, and with it the rows whose relation says onDelete: Cascade.  Model
\* ContentInteractionLog has no relation to Content.
deleteContent(contents, rows, table, id) ==
    IF id \notin contents
    THEN [ content |-> contents, rows |-> rows, logs |-> table,
           error |-> "Record to delete does not exist" ]
    ELSE [ content |-> contents \ {id},
           rows |-> { r \in rows : r.content_id # id },
           logs |-> table,
           error |-> "ok" ]

LogInteraction(interactionData) ==
    LET res == logInteraction(logs, interactionData, clock) IN
    /\ Len(logs) < MaxLogs
    /\ logs' = res.logs
    /\ lastCall' = [ op |-> "logInteraction",
                     userId |-> interactionData.userId,
                     contentId |-> interactionData.contentId,
                     data |-> NoData, result |-> res.error,
                     created |-> FALSE ]
    /\ UNCHANGED <<content, progress, clock, reported, lastCompletedAt,
                   inflight,
                   catalog, response>>

BulkLogInteractions(interactions) ==
    LET res == bulkLogInteractions(logs, interactions, clock) IN
    /\ Len(logs) + Len(interactions) <= MaxLogs
    /\ logs' = res.logs
    /\ lastCall' = [ op |-> "bulkLogInteractions", userId |-> "",
                     contentId |-> "", data |-> NoData,
                     result |-> res.error, created |-> FALSE ]
    /\ UNCHANGED <<content, progress, clock, reported, lastCompletedAt,
                   inflight,
                   catalog, response>>

\* The Content row's counters go with it, and its ContentTopic rows by
\* onDelete: Cascade.
cascadeTopics(cat, contents) ==
    [ topics |-> cat.topics,
      contentTopics |->
          SelectSeq(cat.contentTopics, LAMBDA ct : ct.content_id \in contents),
      stats |-> [ c \in (DOMAIN cat.stats) \cap contents |-> cat.stats[c] ] ]

DeleteContent(id) ==
    LET res == deleteContent(content, progress, logs, id) IN
    /\ content' = res.content
    /\ catalog' = cascadeTopics(catalog, res.content)
    /\ progress' = res.rows
    /\ logs' = res.logs
    /\ lastCall' = [ op |-> "deleteContent", userId |-> "",
                     contentId |-> id, data |-> NoData,
                     result |-> res.error, created |-> FALSE ]
    /\ UNCHANGED <<clock, reported, lastCompletedAt, inflight, response>>

NextLog ==
    \/ Tick
    \/ \E interactionData \in LogInputs : LogInteraction(interactionData)
    \/ \E interactions \in LogBatches : BulkLogInteractions(interactions)
    \/ \E id \in ContentIds : DeleteContent(id)

SpecLog == Init /\ [][NextLog]_vars


\* ------------------------------------------------- abandonment analytics
\* A JavaScript number that is a quotient is kept as numerator and
\* denominator; den = 0 is the NaN of 0 / 0.
Ratio(n, d) == [ num |-> n, den |-> d ]

\* The events logged before the analytics are read.
AnalyticsInputs ==
    { E("u1", "c1", "s1", "start", 0, 0, "mobile", "ios", "null", "home",
        UNDEF),
      E("u1", "c1", "s1", "complete", 100, 60, "mobile", "ios", "null", "home",
        UNDEF),
      E("u1", "c1", "s1", "abandon", 60, 30, "undefined", "undefined",
        "too_long", "undefined", UNDEF),
      E("u2", "c1", "s2", "abandon", NULL, 5, "mobile", "ios", "boring",
        "null", UNDEF),
      E("u2", "c9", "s2", "abandon", 100, 40, "desktop", "web", "null",
        "null", UNDEF),
      E("u1", "c1", "s1", "pause", 40, 10, "mobile", "ios", "null", "home",
        UNDEF) }

\* The ids the analytics are asked for: c9 references no content, the empty
\* string is a blank id.
AnalyticsIds == ContentIds \cup {""}

\* A read of the whole log, whatever the content id.
findManyAnyContent(table, contentId) == table

\* contentInteractionLog.findMany({ where: { content_id } }).
findMany(table, contentId) ==
    SelectSeq(table, LAMBDA i : i.content_id = contentId)

\* interactions.filter(i => i.action === action).
filterAction(interactions, action) ==
    SelectSeq(interactions, LAMBDA i : i.action = action)

\* abandons.reduce((acc, a) => acc + (Number(a.progress_at_action) || 0), 0).
RECURSIVE sumProgress(_, _, _)
sumProgress(abandons, i, acc) ==
    IF i > Len(abandons) THEN acc
    ELSE sumProgress(abandons, i + 1,
             acc + (IF abandons[i].progress_at_action = NULL THEN 0
                    ELSE abandons[i].progress_at_action))

\* The mean taken without the guard on abandons.length.
avgAbandonmentPointNoGuard(abandons) ==
    Ratio(sumProgress(abandons, 1, 0), Len(abandons))

\* The mean taken over the rows that have a progress_at_action only.
avgAbandonmentPointSkipNull(abandons) ==
    LET known == SelectSeq(abandons, LAMBDA a : a.progress_at_action # NULL)
    IN  IF Len(known) > 0
        THEN Ratio(sumProgress(known, 1, 0), Len(known))
        ELSE Ratio(0, 1)

avgAbandonmentPoint(abandons) ==
    IF Len(abandons) > 0
    THEN Ratio(sumProgress(abandons, 1, 0), Len(abandons))
    ELSE Ratio(0, 1)

\* A grouping that leaves out the rows without a device_type.
RECURSIVE abandonmentByDeviceKnownOnly(_, _, _)
abandonmentByDeviceKnownOnly(abandons, i, acc) ==
    IF i > Len(abandons) THEN acc
    ELSE IF abandons[i].device_type \in {"null", ""}
    THEN abandonmentByDeviceKnownOnly(abandons, i + 1, acc)
    ELSE LET device == abandons[i].device_type
             count == IF device \in DOMAIN acc THEN acc[device] ELSE 0
         IN  abandonmentByDeviceKnownOnly(abandons, i + 1,
                 [ d \in DOMAIN acc \cup {device} |->
                       IF d = device THEN count + 1 ELSE acc[d] ])

\* abandons.reduce((acc, a) => { const device = a.device_type || 'unknown';
\* acc[device] = (acc[device] || 0) + 1; return acc }, {}).
RECURSIVE abandonmentByDevice(_, _, _)
abandonmentByDevice(abandons, i, acc) ==
    IF i > Len(abandons) THEN acc
    ELSE LET device == IF abandons[i].device_type \in {"null", ""}
                       THEN "unknown" ELSE abandons[i].device_type
             count == IF device \in DOMAIN acc THEN acc[device] ELSE 0
         IN  abandonmentByDevice(abandons, i + 1,
                 [ d \in DOMAIN acc \cup {device} |->
                       IF d = device THEN count + 1 ELSE acc[d] ])

\* ContentService.getAbandonmentAnalytics (content.service.ts:245-257) and
\* ContentRepository.getAbandonmentAnalytics (content.repository.ts:664-696).
getAbandonmentAnalytics(table, contentId) ==
    IF ~Truthy(contentId)
    THEN [ op |-> "getAbandonmentAnalytics", contentId |-> contentId,
           error |-> "contentId es requerido" ]
    ELSE LET interactions == findMany(table, contentId)
             starts == Len(filterAction(interactions, "start"))
             completions == Len(filterAction(interactions, "complete"))
             abandons == filterAction(interactions, "abandon")
         IN  [ op |-> "getAbandonmentAnalytics", contentId |-> contentId,
               error |-> "ok",
               totalStarts |-> starts,
               totalCompletions |-> completions,
               completionRate |-> IF starts > 0
                                  THEN Ratio(completions * 100, starts)
                                  ELSE Ratio(0, 1),
               avgAbandonmentPoint |-> avgAbandonmentPoint(abandons),
               abandonmentByDevice |-> abandonmentByDevice(abandons, 1, <<>>) ]

GetAbandonmentAnalytics(contentId) ==
    /\ response' = getAbandonmentAnalytics(logs, contentId)
    /\ UNCHANGED <<content, progress, logs, clock, lastCall, reported,
                   lastCompletedAt, inflight, catalog>>

NextAnalytics ==
    \/ \E interactionData \in AnalyticsInputs : LogInteraction(interactionData)
    \/ \E contentId \in AnalyticsIds : GetAbandonmentAnalytics(contentId)

SpecAnalytics == Init /\ [][NextAnalytics]_vars

\* ----------------------------------------------- effectiveness analytics
\* The topics and the content the effectiveness analytics are read from:
\* topic t1 holds c1 and c2, topic t2 holds nothing, t9 is no topic.
TopicContent == {"c1", "c2"}

TopicIds == {"t1", "t2", "t9", ""}

CT(c, t, primary) == [ content_id |-> c, topic_id |-> t, is_primary |-> primary ]

Catalogs ==
    { [ topics |-> {"t1", "t2"},
        contentTopics |-> << CT("c1", "t1", TRUE), CT("c2", "t1", FALSE) >>,
        stats |-> [ c \in TopicContent |-> IF c = "c1" THEN s1 ELSE s2 ] ] :
      s1 \in [ view_count : {0, 10}, completion_count : {0, 5},
               rating_average : {NULL, 4}, is_published : {TRUE} ],
      s2 \in [ view_count : {0, 20}, completion_count : {0},
               rating_average : {0, 2, 5}, is_published : {TRUE} ] }

\* The progress reports made before the analytics are read.
TopicTrackCalls ==
    { <<"u1", "c1", D("undefined", UNDEF, 30, 7, UNDEF, "undefined")>>,
      <<"u2", "c1", D("completed", 100, UNDEF, UNDEF, 3, "ok")>> }

\* A lookup that only finds a topic that has content.
findTopicWithContent(cat, topicId) ==
    /\ topicId \in cat.topics
    /\ \E i \in 1..Len(cat.contentTopics) :
          cat.contentTopics[i].topic_id = topicId

\* topic.findUnique({ where: { id: topicId } }) found a row.
findTopic(cat, topicId) == topicId \in cat.topics

\* topic.contentTopics.map(ct => ct.content), as content ids.
contentsOf(cat, topicId) ==
    LET links == SelectSeq(cat.contentTopics,
                           LAMBDA ct : ct.topic_id = topicId)
    IN  [ i \in 1..Len(links) |-> links[i].content_id ]

\* c.rating_average || 0.
ratingOf(cat, c) ==
    IF cat.stats[c].rating_average = NULL THEN 0
    ELSE cat.stats[c].rating_average

\* contents.reduce((acc, c) => acc + c[column], 0), the rating_average
\* column being read as c.rating_average || 0.
RECURSIVE sumOver(_, _, _, _)
sumOver(contents, i, cat, column) ==
    IF i > Len(contents) THEN 0
    ELSE (IF column = "rating_average" THEN ratingOf(cat, contents[i])
          ELSE cat.stats[contents[i]][column])
         + sumOver(contents, i + 1, cat, column)

\* A sort that puts an item before the items of the same rating.
RECURSIVE sortByRatingTiesReversed(_, _, _)
sortByRatingTiesReversed(contents, cat, descending) ==
    IF Len(contents) = 0 THEN << >>
    ELSE LET init == sortByRatingTiesReversed(
                         SubSeq(contents, 1, Len(contents) - 1), cat,
                         descending)
             x == contents[Len(contents)]
             stays(e) == IF descending
                         THEN ratingOf(cat, e) > ratingOf(cat, x)
                         ELSE ratingOf(cat, e) < ratingOf(cat, x)
             n == Cardinality({ i \in 1..Len(init) : stays(init[i]) })
         IN  SubSeq(init, 1, n) \o << x >> \o SubSeq(init, n + 1, Len(init))

\* Array.prototype.sort with (b.rating_average || 0) - (a.rating_average || 0)
\* when descending and the reverse otherwise; the sort is stable.
RECURSIVE sortByRating(_, _, _)
sortByRating(contents, cat, descending) ==
    IF Len(contents) = 0 THEN << >>
    ELSE LET init == sortByRating(SubSeq(contents, 1, Len(contents) - 1),
                                  cat, descending)
             x == contents[Len(contents)]
             stays(e) == IF descending
                         THEN ratingOf(cat, e) >= ratingOf(cat, x)
                         ELSE ratingOf(cat, e) <= ratingOf(cat, x)
             n == Cardinality({ i \in 1..Len(init) : stays(init[i]) })
         IN  SubSeq(init, 1, n) \o << x >> \o SubSeq(init, n + 1, Len(init))

\* .slice(0, 5).map(c => ({ id, title, completionRate, averageRating })).
engaged(sorted, cat) ==
    [ i \in 1..(IF Len(sorted) < 5 THEN Len(sorted) ELSE 5) |->
        [ id |-> sorted[i],
          completionRate |->
              IF cat.stats[sorted[i]].view_count > 0
              THEN Ratio(cat.stats[sorted[i]].completion_count * 100,
                         cat.stats[sorted[i]].view_count)
              ELSE Ratio(0, 1),
          averageRating |-> ratingOf(cat, sorted[i]) ] ]

\* A sum that only takes the rows of completed content.
RECURSIVE sumTimeSpentCompletedOnly(_)
sumTimeSpentCompletedOnly(rows) ==
    IF rows = {} THEN 0
    ELSE LET r == CHOOSE x \in rows : TRUE
         IN  (IF r.status = "COMPLETED" THEN r.time_spent_seconds ELSE 0)
             + sumTimeSpentCompletedOnly(rows \ {r})

\* allProgress.reduce((acc, p) => acc + p.time_spent_seconds, 0).
RECURSIVE sumTimeSpent(_)
sumTimeSpent(rows) ==
    IF rows = {} THEN 0
    ELSE LET r == CHOOSE x \in rows : TRUE
         IN  r.time_spent_seconds + sumTimeSpent(rows \ {r})

\* ContentService.getEffectivenessAnalytics (content.service.ts:259-271) and
\* ContentRepository.getEffectivenessAnalytics
\* (content.repository.ts:698-764).
getEffectivenessAnalytics(cat, rows, topicId) ==
    IF ~Truthy(topicId)
    THEN [ op |-> "getEffectivenessAnalytics", topicId |-> topicId,
           error |-> "contentId es requerido" ]
    ELSE IF ~findTopic(cat, topicId)
    THEN [ op |-> "getEffectivenessAnalytics", topicId |-> topicId,
           error |-> "Topic not found" ]
    ELSE LET contents == contentsOf(cat, topicId)
             totalContent == Len(contents)
             totalViews == sumOver(contents, 1, cat, "view_count")
             totalCompletions == sumOver(contents, 1, cat, "completion_count")
             allProgress ==
                 { r \in rows :
                     \E i \in 1..Len(contents) : r.content_id = contents[i] }
             mostSorted == sortByRating(contents, cat, TRUE)
             leastSorted == sortByRating(mostSorted, cat, FALSE)
         IN  [ op |-> "getEffectivenessAnalytics", topicId |-> topicId,
               error |-> "ok",
               totalContent |-> totalContent,
               totalViews |-> totalViews,
               totalCompletions |-> totalCompletions,
               averageCompletionRate |->
                   IF totalViews > 0
                   THEN Ratio(totalCompletions * 100, totalViews)
                   ELSE Ratio(0, 1),
               averageTimeSpent |->
                   IF allProgress # {}
                   THEN Ratio(sumTimeSpent(allProgress),
                              Cardinality(allProgress))
                   ELSE Ratio(0, 1),
               averageRating |->
                   IF totalContent > 0
                   THEN Ratio(sumOver(contents, 1, cat, "rating_average"),
                              totalContent)
                   ELSE Ratio(0, 1),
               mostEngagedContent |-> engaged(mostSorted, cat),
               leastEngagedContent |-> engaged(leastSorted, cat) ]

GetEffectivenessAnalytics(topicId) ==
    /\ response' = getEffectivenessAnalytics(catalog, progress, topicId)
    /\ UNCHANGED <<content, progress, logs, clock, lastCall, reported,
                   lastCompletedAt, inflight, catalog>>

InitTopics ==
    /\ content = TopicContent
    /\ progress = {}
    /\ logs = <<>>
    /\ clock = 1
    /\ lastCall = [ op |-> "none", userId |-> "", contentId |-> "",
                    data |-> NoData, result |-> "ok", created |-> FALSE ]
    /\ reported = {}
    /\ lastCompletedAt = [ k \in Keys |-> NULL ]
    /\ inflight = <<>>
    /\ catalog \in Catalogs
    /\ response = NoResponse

NextTopics ==
    \/ \E call \in TopicTrackCalls, impl \in Impls :
          TrackUserProgress(call[1], call[2], call[3], impl)
    \/ \E topicId \in TopicIds : GetEffectivenessAnalytics(topicId)

SpecTopics == InitTopics /\ [][NextTopics]_vars

\* ------------------------------------------- ranking of a topic's content
\* A topic with more content items than the lists show: t1 holds MaxContent
\* items, fetched in the order of ContentName, with every rating.
ContentName == << "c1", "c2", "c3", "c4", "c5", "c6", "c7", "c8" >>

RankingContent == { ContentName[i] : i \in 1..MaxContent }

Ratings == {NULL, 0, 3}

RankingCatalogs ==
    { [ topics |-> {"t1", "t2"},
        contentTopics |->
            [ i \in 1..MaxContent |-> CT(ContentName[i], "t1", i = 1) ],
        stats |-> [ c \in RankingContent |->
                      [ view_count |-> IF c \in {"c2", "c5"} THEN 0 ELSE 20,
                        completion_count |-> IF c = "c3" THEN 0 ELSE 5,
                        rating_average |-> r[c],
                        is_published |-> TRUE ] ] ] :
      r \in [ RankingContent -> Ratings ] }

InitRanking ==
    /\ content = RankingContent
    /\ progress = {}
    /\ logs = <<>>
    /\ clock = 1
    /\ lastCall = [ op |-> "none", userId |-> "", contentId |-> "",
                    data |-> NoData, result |-> "ok", created |-> FALSE ]
    /\ reported = {}
    /\ lastCompletedAt = [ k \in Keys |-> NULL ]
    /\ inflight = <<>>
    /\ catalog \in RankingCatalogs
    /\ response = NoResponse

NextRanking == \E topicId \in {"t1", "t2"} : GetEffectivenessAnalytics(topicId)

SpecRanking == InitRanking /\ [][NextRanking]_vars

\* --------------------------------------------------- problematic content
\* The content the problematic-content report is read from, in the order the
\* store returns it: c1 and c9 are published, c2 is not.
ProblemContent == {"c1", "c2", "c9"}

FetchOrder == << "c1", "c2", "c9" >>

ProblemCatalogs ==
    { [ topics |-> {}, contentTopics |-> << >>,
        stats |-> [ c \in ProblemContent |->
                      [ view_count |-> IF c = "c1" THEN v ELSE 10,
                        completion_count |-> 0,
                        rating_average |-> 0,
                        is_published |-> (c # "c2") ] ] ] :
      v \in {0, 2, 5, 10} }

ProblemTrackCalls ==
    { <<"u1", "c1", D("completed", UNDEF, UNDEF, UNDEF, UNDEF, "undefined")>>,
      <<"u2", "c1", D("completed", UNDEF, UNDEF, UNDEF, UNDEF, "undefined")>>,
      <<"u1", "c9", D("in_progress", 50, UNDEF, UNDEF, UNDEF, "undefined")>> }

ProblemBatches == { << I("u2", "c9", "completed", 100, 30) >> }

ProblemLogInputs ==
    { E("u1", "c1", "s1", "abandon", 10, 30, "mobile", "ios", "boring",
        "home", UNDEF) }

Thresholds == {30, 40, 101}

\* The limit ContentService passes to the repository, and the limits of the
\* direct calls of the repository method.
FetchLimit == 20

Limits == {1, FetchLimit}

\* content.findMany({ where: { is_published: true }, take: limit }).
publishedWindow(cat, contents, limit) ==
    LET published ==
            SelectSeq(FetchOrder,
                      LAMBDA c : c \in contents /\ cat.stats[c].is_published)
    IN  SubSeq(published, 1,
               IF Len(published) < limit THEN Len(published) ELSE limit)

\* _count.contentProgress with where: { status: 'COMPLETED' }.
completedCount(rows, c) ==
    Cardinality({ r \in rows : r.content_id = c /\ r.status = "COMPLETED" })

\* A quotient is below a number.
Below(rate, n) == rate.num < n * rate.den

\* A filter that also lets through the items at the threshold.
keepsUpTo(rate, threshold) == rate.num <= threshold * rate.den

\* .filter(content => content.completionRate < threshold).
keeps(rate, threshold) == Below(rate, threshold)

\* Tiers that start one tier too low: nothing is CRITICO.
priorityOfShifted(rate) ==
    IF Below(rate, 20) THEN "ALTO"
    ELSE IF Below(rate, 40) THEN "MEDIO"
    ELSE "BAJO"

\* completionRate < 20 ? 'CRITICO' : < 40 ? 'ALTO' : < 60 ? 'MEDIO' : 'BAJO'.
priorityOf(rate) ==
    IF Below(rate, 20) THEN "CRITICO"
    ELSE IF Below(rate, 40) THEN "ALTO"
    ELSE IF Below(rate, 60) THEN "MEDIO"
    ELSE "BAJO"

\* The item the repository builds of a fetched Content row.
problematicItem(cat, rows, c) ==
    LET completionRate ==
            IF cat.stats[c].view_count > 0
            THEN Ratio(completedCount(rows, c) * 100, cat.stats[c].view_count)
            ELSE Ratio(0, 1)
    IN  [ contentId |-> c,
          completionRate |-> completionRate,
          avgAbandonmentPoint |-> 50,
          priority |-> priorityOf(completionRate),
          recommendation |->
              IF Below(completionRate, 20)
              THEN << "Revision urgente necesaria" >>
              ELSE IF Below(completionRate, 40)
              THEN << "Considerar redisenar contenido" >>
              ELSE << "Revisar para mejoras menores" >> ]

\* A fetch that takes every published row whatever the limit.
findProblematicContentNoTake(cat, contents, rows, threshold, limit, impl) ==
    IF impl = 2
    THEN [ error |-> "Invalid value for argument status", items |-> << >> ]
    ELSE LET window == publishedWindow(cat, contents, Len(FetchOrder))
             items == [ i \in 1..Len(window) |->
                          problematicItem(cat, rows, window[i]) ]
         IN  [ error |-> "ok",
               items |-> SelectSeq(items,
                             LAMBDA x : keeps(x.completionRate, threshold)) ]

\* ContentRepository.findProblematicContent.  The definition at line 766
\* counts the rows with status 'COMPLETED'; the definition at line 2189
\* counts with status 'completed', which is no value of UserProgressStatus,
\* and the store client rejects the query.
findProblematicContent(cat, contents, rows, threshold, limit, impl) ==
    IF impl = 2
    THEN [ error |-> "Invalid value for argument status", items |-> << >> ]
    ELSE LET window == publishedWindow(cat, contents, limit)
             items == [ i \in 1..Len(window) |->
                          problematicItem(cat, rows, window[i]) ]
         IN  [ error |-> "ok",
               items |-> SelectSeq(items,
                             LAMBDA x : keeps(x.completionRate, threshold)) ]

\* The seed text of a tier in ContentService.findProblematicContent.
seedOf(rate) ==
    IF Below(rate, 20)
    THEN "Revision urgente necesaria. Posible contenido demasiado complejo o poco atractivo."
    ELSE IF Below(rate, 40)
    THEN "Considerar redisenar o reestructurar el contenido para mejorar la retencion."
    ELSE IF Below(rate, 60)
    THEN "Evaluar si el contenido cumple con las expectativas de los usuarios."
    ELSE "Revisar contenido para posibles mejoras"

\* recommendation += the clause of the abandonment point.
withClause(seed, avgPoint) ==
    IF avgPoint < 25
    THEN << seed, "Los usuarios abandonan al inicio. Mejorar la introduccion." >>
    ELSE IF avgPoint > 75
    THEN << seed, "Los usuarios abandonan al final. Considerar acortar o hacer mas atractivo el final." >>
    ELSE << seed >>

\* ContentService.findProblematicContent (content.service.ts:289-328).
serviceFindProblematicContent(cat, contents, rows, threshold, impl) ==
    LET res == findProblematicContent(cat, contents, rows, threshold,
                                      FetchLimit, impl)
    IN  [ error |-> res.error,
          items |-> [ i \in 1..Len(res.items) |->
                        [ res.items[i] EXCEPT
                            !.priority = priorityOf(res.items[i].completionRate),
                            !.recommendation =
                                withClause(seedOf(res.items[i].completionRate),
                                           res.items[i].avgAbandonmentPoint) ] ] ]

\* A call of ContentService.findProblematicContent(threshold).
FindProblematicContent(threshold, impl) ==
    LET res == serviceFindProblematicContent(catalog, content, progress,
                                             threshold, impl)
    IN  /\ response' = [ op |-> "findProblematicContent", layer |-> "service",
                         threshold |-> threshold, limit |-> FetchLimit,
                         impl |-> impl, error |-> res.error,
                         items |-> res.items ]
        /\ UNCHANGED <<content, progress, logs, clock, lastCall, reported,
                       lastCompletedAt, inflight, catalog>>

\* A call of ContentRepository.findProblematicContent(threshold, limit).
RepositoryFindProblematicContent(threshold, limit, impl) ==
    LET res == findProblematicContent(catalog, content, progress, threshold,
                                      limit, impl)
    IN  /\ response' = [ op |-> "findProblematicContent",
                         layer |-> "repository",
                         threshold |-> threshold, limit |-> limit,
                         impl |-> impl, error |-> res.error,
                         items |-> res.items ]
        /\ UNCHANGED <<content, progress, logs, clock, lastCall, reported,
                       lastCompletedAt, inflight, catalog>>

InitProblematic ==
    /\ content = ProblemContent
    /\ progress = {}
    /\ logs = <<>>
    /\ clock = 1
    /\ lastCall = [ op |-> "none", userId |-> "", contentId |-> "",
                    data |-> NoData, result |-> "ok", created |-> FALSE ]
    /\ reported = {}
    /\ lastCompletedAt = [ k \in Keys |-> NULL ]
    /\ inflight = <<>>
    /\ catalog \in ProblemCatalogs
    /\ response = NoResponse

NextProblematic ==
    \/ \E call \in ProblemTrackCalls, impl \in Impls :
          TrackUserProgress(call[1], call[2], call[3], impl)
    \/ \E progressData \in ProblemBatches : BulkTrackProgress(progressData)
    \/ \E interactionData \in ProblemLogInputs :
          LogInteraction(interactionData)
    \/ \E threshold \in Thresholds, impl \in Impls :
          FindProblematicContent(threshold, impl)
    \/ \E threshold \in Thresholds, limit \in Limits, impl \in Impls :
          RepositoryFindProblematicContent(threshold, limit, impl)

SpecProblematic == InitProblematic /\ [][NextProblematic]_vars

\* ------------------------------------------------- concurrent requests
\* Two trackUserProgress requests for the same (user, content) pair, each a
\* chain of awaits: the service validates and calls the repository
\* synchronously (RequestStart); the second definition then awaits
\* content.findUnique (RequestPreCheck); both take now = new Date() before
\* they await the upsert, which the store applies as one statement
\* (RequestUpsert).
Requests == {1, 2}

InitRace ==
    /\ content = ExistingContent
    /\ progress = {}
    /\ logs = <<>>
    /\ clock = 1
    /\ lastCall = [ op |-> "none", userId |-> "", contentId |-> "",
                    data |-> NoData, result |-> "ok", created |-> FALSE ]
    /\ reported = {}
    /\ lastCompletedAt = [ k \in Keys |-> NULL ]
    /\ inflight \in [ Requests ->
                        [ userId : {"u1"}, contentId : {"c1"},
                          data : ValidTrackInputs, impl : Impls,
                          pc : {"start"}, now : {NULL}, result : {"pending"} ] ]
    /\ catalog = NoTopics
    /\ response = NoResponse

RequestStart(i) ==
    LET req == inflight[i]
        check == validateProgress(req.userId, req.contentId, safeData(req.data))
    IN  /\ req.pc = "start"
        /\ inflight' =
             [ inflight EXCEPT ![i] =
                 IF check # "ok"
                 THEN [ req EXCEPT !.pc = "done", !.result = check ]
                 ELSE IF req.impl = 1
                 THEN [ req EXCEPT !.pc = "upsert", !.now = clock ]
                 ELSE [ req EXCEPT !.pc = "precheck" ] ]
        /\ UNCHANGED <<content, progress, logs, clock, lastCall, reported,
                       lastCompletedAt,
                       catalog, response>>

RequestPreCheck(i) ==
    LET req == inflight[i]
        pre == contentExists(content, req.userId, req.contentId)
    IN  /\ req.pc = "precheck"
        /\ inflight' =
             [ inflight EXCEPT ![i] =
                 IF pre # "ok"
                 THEN [ req EXCEPT !.pc = "done", !.result = pre ]
                 ELSE [ req EXCEPT !.pc = "upsert", !.now = clock ] ]
        /\ UNCHANGED <<content, progress, logs, clock, lastCall, reported,
                       lastCompletedAt,
                       catalog, response>>

RequestUpsert(i) ==
    LET req == inflight[i]
        safe == safeData(req.data)
        res == IF req.impl = 1
               THEN Upsert(progress, content, req.userId, req.contentId,
                           updateData(safe, req.now), createData(safe, req.now))
               ELSE Upsert(progress, content, req.userId, req.contentId,
                           updateDataV2(safe, req.now),
                           createDataV2(safe, req.now))
    IN  /\ req.pc = "upsert"
        /\ progress' = res.rows
        /\ inflight' = [ inflight EXCEPT ![i] =
                           [ req EXCEPT !.pc = "done", !.result = res.error ] ]
        /\ lastCall' = [ op |-> "trackProgress", userId |-> req.userId,
                         contentId |-> req.contentId, data |-> req.data,
                         result |-> res.error, created |-> res.created ]
        /\ reported' = IF res.error = "ok"
                       THEN reported \cup { <<req.userId, req.contentId>> }
                       ELSE reported
        /\ UNCHANGED <<content, logs, clock, lastCompletedAt,
                       catalog, response>>

NextRace ==
    \/ Tick
    \/ \E i \in Requests : RequestStart(i)
    \/ \E i \in Requests : RequestPreCheck(i)
    \/ \E i \in Requests : RequestUpsert(i)

SpecRace == InitRace /\ [][NextRace]_vars

\* ------------------------------------------------- primary topic of content
\* The topics a content item can be associated with in the requests below.
PrimaryTopics == {"t1", "t2"}

\* The associations of c1 before the requests arrive: at most one is primary.
PrimaryCatalogs ==
    { [ topics |-> PrimaryTopics, contentTopics |-> cts, stats |-> NoTopics.stats ] :
      cts \in { <<>>,
                << CT("c1", "t1", TRUE) >>,
                << CT("c1", "t1", FALSE) >>,
                << CT("c1", "t1", FALSE), CT("c1", "t2", TRUE) >> } }

\* The requests: addTopicToContent through ContentRepository or through
\* ContentTopicRepository, and setPrimaryTopic.
PrimaryRequests ==
    [ op : {"addTopicToContent"}, contentId : {"c1"}, topicId : PrimaryTopics,
      isPrimary : BOOLEAN, pc : {"start"}, result : {"pending"} ]
    \cup
    [ op : {"contentTopic.addTopicToContent", "setPrimaryTopic"},
      contentId : {"c1"}, topicId : PrimaryTopics,
      isPrimary : {TRUE}, pc : {"start"}, result : {"pending"} ]

hasAssociation(cts, contentId, topicId) ==
    \E i \in DOMAIN cts :
        cts[i].content_id = contentId /\ cts[i].topic_id = topicId

\* contentTopic.updateMany({ where: { content_id }, data: { is_primary: false } })
clearPrimary(cts, contentId) ==
    [ i \in DOMAIN cts |->
        IF cts[i].content_id = contentId
        THEN CT(contentId, cts[i].topic_id, FALSE)
        ELSE cts[i] ]

\* The association (contentId, topicId) gets the given is_primary.
setAssociation(cts, contentId, topicId, isPrimary) ==
    [ i \in DOMAIN cts |->
        IF cts[i].content_id = contentId /\ cts[i].topic_id = topicId
        THEN CT(contentId, topicId, isPrimary)
        ELSE cts[i] ]

\* contentTopic.upsert on the unique key (content_id, topic_id).
upsertAssociation(cts, contentId, topicId, isPrimary) ==
    IF hasAssociation(cts, contentId, topicId)
    THEN setAssociation(cts, contentId, topicId, isPrimary)
    ELSE Append(cts, CT(contentId, topicId, isPrimary))

\* contentTopic.create: the unique key rejects a second row of the pair.
createAssociation(cts, contentId, topicId, isPrimary) ==
    IF hasAssociation(cts, contentId, topicId)
    THEN [ cts |-> cts, error |-> "Unique constraint failed" ]
    ELSE [ cts |-> Append(cts, CT(contentId, topicId, isPrimary)),
           error |-> "ok" ]

\* The transaction of setPrimaryTopic: clear the primaries of the content,
\* then update the row of the pair; the update of a missing row throws and
\* the transaction rolls back.
setPrimaryTopic(cts, contentId, topicId) ==
    IF ~hasAssociation(cts, contentId, topicId)
    THEN [ cts |-> cts, error |-> "Record to update not found" ]
    ELSE [ cts |-> setAssociation(clearPrimary(cts, contentId),
                                  contentId, topicId, TRUE),
           error |-> "ok" ]

InitPrimary ==
    /\ content = ExistingContent
    /\ progress = {}
    /\ logs = <<>>
    /\ clock = 1
    /\ lastCall = [ op |-> "none", userId |-> "", contentId |-> "",
                    data |-> NoData, result |-> "ok", created |-> FALSE ]
    /\ reported = {}
    /\ lastCompletedAt = [ k \in Keys |-> NULL ]
    /\ inflight \in [ Requests -> PrimaryRequests ]
    /\ catalog \in PrimaryCatalogs
    /\ response = NoResponse

\* ContentRepository.addTopicToContent up to its first await: the updateMany
\* when isPrimary, nothing otherwise.
AddTopicClear(i) ==
    LET req == inflight[i] IN
    /\ req.op = "addTopicToContent"
    /\ req.pc = "start"
    /\ catalog' = [ catalog EXCEPT !.contentTopics =
                      IF req.isPrimary THEN clearPrimary(@, req.contentId)
                      ELSE @ ]
    /\ inflight' = [ inflight EXCEPT ![i] = [ req EXCEPT !.pc = "upsert" ] ]
    /\ UNCHANGED <<content, progress, logs, clock, lastCall, reported,
                   lastCompletedAt, response>>

\* ContentRepository.addTopicToContent, the upsert.
AddTopicUpsert(i) ==
    LET req == inflight[i] IN
    /\ req.op = "addTopicToContent"
    /\ req.pc = "upsert"
    /\ catalog' = [ catalog EXCEPT !.contentTopics =
                      upsertAssociation(@, req.contentId, req.topicId,
                                        req.isPrimary) ]
    /\ inflight' = [ inflight EXCEPT ![i] =
                       [ req EXCEPT !.pc = "done", !.result = "ok" ] ]
    /\ UNCHANGED <<content, progress, logs, clock, lastCall, reported,
                   lastCompletedAt, response>>

\* ContentTopicRepository.addTopicToContent: one create.
ContentTopicAddTopicToContent(i) ==
    LET req == inflight[i]
        res == createAssociation(catalog.contentTopics, req.contentId,
                                 req.topicId, req.isPrimary)
    IN  /\ req.op = "contentTopic.addTopicToContent"
        /\ req.pc = "start"
        /\ catalog' = [ catalog EXCEPT !.contentTopics = res.cts ]
        /\ inflight' = [ inflight EXCEPT ![i] =
                           [ req EXCEPT !.pc = "done", !.result = res.error ] ]
        /\ UNCHANGED <<content, progress, logs, clock, lastCall, reported,
                       lastCompletedAt, response>>

\* ContentRepository.setPrimaryTopic: the transaction as one step.
SetPrimaryTopic(i) ==
    LET req == inflight[i]
        res == setPrimaryTopic(catalog.contentTopics, req.contentId,
                               req.topicId)
    IN  /\ req.op = "setPrimaryTopic"
        /\ req.pc = "start"
        /\ catalog' = [ catalog EXCEPT !.contentTopics = res.cts ]
        /\ inflight' = [ inflight EXCEPT ![i] =
                           [ req EXCEPT !.pc = "done", !.result = res.error ] ]
        /\ UNCHANGED <<content, progress, logs, clock, lastCall, reported,
                       lastCompletedAt, response>>

NextPrimary ==
    \/ \E i \in Requests : AddTopicClear(i)
    \/ \E i \in Requests : AddTopicUpsert(i)
    \/ \E i \in Requests : ContentTopicAddTopicToContent(i)
    \/ \E i \in Requests : SetPrimaryTopic(i)

SpecPrimary == InitPrimary /\ [][NextPrimary]_vars

\* ================================================================ claims
Row(rows, userId, contentId) ==
    CHOOSE r \in RowsOf(rows, userId, contentId) : TRUE

\* The step is a call of op: every operation records itself in lastCall and
\* only Tick moves the clock.
Called(op) == clock' = clock /\ lastCall'.op = op

\* C1: in every reachable state a progress row's completed_at is non-null
\* if and only if its status is COMPLETED.
C1_CompletedAtIffCompleted ==
    \A r \in progress : (r.completed_at # NULL) <=> (r.status = "COMPLETED")

\* C2: a successful trackUserProgress on an existing row leaves every field
\* that is absent from the input at its previous value.
C2_AbsentFieldsKept ==
    [][ ( /\ Called("trackProgress")
          /\ lastCall'.result = "ok"
          /\ RowsOf(progress, lastCall'.userId, lastCall'.contentId) # {} )
        => LET d == lastCall'.data
               old == Row(progress, lastCall'.userId, lastCall'.contentId)
               new == Row(progress', lastCall'.userId, lastCall'.contentId)
           IN  /\ d.status = "undefined" => new.status = old.status
               /\ d.progressPercentage = UNDEF
                    => new.progress_percentage = old.progress_percentage
               /\ d.timeSpentSeconds = UNDEF
                    => new.time_spent_seconds = old.time_spent_seconds
               /\ d.lastPositionSeconds = UNDEF
                    => new.last_position_seconds = old.last_position_seconds
               /\ d.completionRating = UNDEF
                    => new.completion_rating = old.completion_rating
               /\ d.completionFeedback = "undefined"
                    => new.completion_feedback = old.completion_feedback
               /\ new.first_accessed_at = old.first_accessed_at
               /\ d.status # "completed"
                    => new.completed_at = old.completed_at ]_vars

C4_CompletedAtIsLastCompletedCall ==
    \A k \in Keys :
        lastCompletedAt[k] # NULL
        => /\ Cardinality(RowsOf(progress, k[1], k[2])) = 1
           /\ Row(progress, k[1], k[2]).completed_at = lastCompletedAt[k]

\* A completed call on a row that an earlier call created: completed_at is
\* the time of this call, later than the creation.
C4_Witness ==
    /\ lastCall.op = "trackProgress" /\ lastCall.result = "ok"
    /\ lastCall.data.status = "completed" /\ ~lastCall.created
    /\ \E r \in progress :
          /\ r.user_id = lastCall.userId /\ r.content_id = lastCall.contentId
          /\ r.completed_at = clock
          /\ r.first_accessed_at < clock

OutOfRange(d) ==
    \/ d.progressPercentage # UNDEF
         /\ (d.progressPercentage < 0 \/ d.progressPercentage > 100)
    \/ d.timeSpentSeconds # UNDEF /\ d.timeSpentSeconds < 0
    \/ d.lastPositionSeconds # UNDEF /\ d.lastPositionSeconds < 0
    \/ d.completionRating # UNDEF
         /\ (d.completionRating < 1 \/ d.completionRating > 5)

ValidationErrors ==
    { "Progress percentage must be between 0 and 100",
      "Time spent cannot be negative",
      "Last position cannot be negative",
      "Completion rating must be between 1 and 5" }

\* C5: a trackUserProgress call with an out-of-range progressPercentage,
\* timeSpentSeconds, lastPositionSeconds or completionRating fails with a
\* validation error and leaves the progress rows as they were.
C5_InvalidInputNoWrite ==
    [][ (Called("trackProgress") /\ lastCall'.userId # ""
           /\ OutOfRange(lastCall'.data))
        => lastCall'.result \in ValidationErrors /\ progress' = progress ]_vars

\* An out-of-range call has been rejected while rows exist.
C5_Witness ==
    /\ lastCall.op = "trackProgress" /\ OutOfRange(lastCall.data)
    /\ lastCall.result \in ValidationErrors
    /\ progress # {}

\* C6: every progress row has progress_percentage in 0..100 and
\* non-negative time_spent_seconds and last_position_seconds.
C6_RowsInRange ==
    \A r \in progress :
        /\ r.progress_percentage >= 0 /\ r.progress_percentage <= 100
        /\ r.time_spent_seconds >= 0
        /\ r.last_position_seconds >= 0

\* Rows written by both paths, at the upper end of the range.
C6_Witness ==
    /\ lastCall.op = "bulkTrackProgress" /\ lastCall.result = "ok"
    /\ \E r \in progress : r.progress_percentage = 100 /\ r.time_spent_seconds = 30
    /\ \E r \in progress : r.last_position_seconds = 7

\* C7: trackUserProgress for a content id that references no content fails
\* with the not-found error of the pre-check, and no row references that
\* content.
C7_NotFoundBeforeUpsert ==
    /\ \A r \in progress : r.content_id \in content
    /\ (lastCall.op = "trackProgress" /\ lastCall.contentId \notin content)
       => lastCall.result = "Content does not exist"

\* C9: the call that creates the row of a pair sets first_accessed_at and
\* last_accessed_at to the time of the call, the status to the supplied one
\* or NOT_STARTED, the counters to the supplied values or 0, the rating and
\* feedback to the supplied values or NULL, and completed_at to the time of
\* the call if the status is completed and to NULL otherwise.
C9_FirstCallCreatesDefaults ==
    [][ ( /\ Called("trackProgress")
          /\ lastCall'.result = "ok"
          /\ RowsOf(progress, lastCall'.userId, lastCall'.contentId) = {} )
        => LET d == lastCall'.data
               rs == RowsOf(progress', lastCall'.userId, lastCall'.contentId)
               r == Row(progress', lastCall'.userId, lastCall'.contentId)
           IN  /\ Cardinality(rs) = 1
               /\ r.first_accessed_at = clock
               /\ r.last_accessed_at = clock
               /\ r.status = IF d.status = "undefined" THEN "NOT_STARTED"
                             ELSE statusMap(d.status)
               /\ r.progress_percentage =
                      IF d.progressPercentage = UNDEF THEN 0
                      ELSE d.progressPercentage
               /\ r.time_spent_seconds =
                      IF d.timeSpentSeconds = UNDEF THEN 0
                      ELSE d.timeSpentSeconds
               /\ r.last_position_seconds =
                      IF d.lastPositionSeconds = UNDEF THEN 0
                      ELSE d.lastPositionSeconds
               /\ r.completion_rating =
                      IF d.completionRating = UNDEF THEN NULL
                      ELSE d.completionRating
               /\ r.completion_feedback =
                      IF d.completionFeedback = "undefined" THEN "null"
                      ELSE d.completionFeedback
               /\ r.completed_at =
                      IF d.status = "completed" THEN clock ELSE NULL ]_vars

\* A first call without a status has created a NOT_STARTED row.
C9_Witness ==
    /\ lastCall.op = "trackProgress" /\ lastCall.created
    /\ lastCall.data.status = "undefined"
    /\ \E r \in progress :
          /\ r.user_id = lastCall.userId /\ r.content_id = lastCall.contentId
          /\ r.status = "NOT_STARTED" /\ r.completed_at = NULL
          /\ r.first_accessed_at = r.last_accessed_at

\* C8: when two concurrent trackUserProgress requests for one pair without a
\* row have both returned, neither has failed and the pair has a single row,
\* equal to the one left by running the two requests one after the other in
\* one of the two orders.
SerialRows(a, b) ==
    LET ra == inflight[a]
        rb == inflight[b]
        first == trackUserProgress({}, content, ra.userId, ra.contentId,
                                   ra.data, ra.now, ra.impl)
    IN  trackUserProgress(first.rows, content, rb.userId, rb.contentId,
                          rb.data, rb.now, rb.impl).rows

AllDone ==
    /\ DOMAIN inflight = Requests
    /\ \A i \in Requests : inflight[i].pc = "done"

C10_LogAppendOnly ==
    [][ /\ Len(logs') >= Len(logs)
        /\ SubSeq(logs', 1, Len(logs)) = logs ]_vars

\* A content item with logged interactions has been deleted and its log
\* rows are still there.
C10_Witness ==
    /\ lastCall.op = "deleteContent" /\ lastCall.result = "ok"
    /\ Len(logs) >= 2
    /\ \E i \in 1..Len(logs) : logs[i].content_id = lastCall.contentId

\* The event lacks userId, contentId or action.
LacksRequired(e) ==
    ~Truthy(e.userId) \/ ~Truthy(e.contentId) \/ ~Truthy(e.action)

\* The store rejects the row the event becomes.
StoreRejects(e) == ~HasRequiredColumns(logData(e, clock))

\* C11: bulkLogInteractions is all-or-nothing: when an event of the batch
\* lacks userId, contentId or action, or the store rejects one of the rows,
\* the log is left as it was; otherwise the log grows by exactly one row per
\* event, in the order of the batch.
C11_BulkLogAllOrNothing ==
    [][ \A b \in LogBatches :
          BulkLogInteractions(b) =>
            IF \E i \in 1..Len(b) : LacksRequired(b[i]) \/ StoreRejects(b[i])
            THEN logs' = logs
            ELSE /\ Len(logs') = Len(logs) + Len(b)
                 /\ SubSeq(logs', 1, Len(logs)) = logs
                 /\ \A i \in 1..Len(b) :
                       /\ logs'[Len(logs) + i].user_id = b[i].userId
                       /\ logs'[Len(logs) + i].content_id = b[i].contentId
                       /\ logs'[Len(logs) + i].action = b[i].action ]_vars

\* A batch passed the service's check and the store rejected one of its rows
\* (a missing session_id), with rows already in the log.
C11_Witness ==
    /\ lastCall.op = "bulkLogInteractions"
    /\ lastCall.result = "Argument is missing"
    /\ Len(logs) > 0

\* C12: a logInteraction call whose event lacks userId, contentId or action
\* fails and leaves the interaction log as it was.
C12_MissingFieldRejected ==
    [][ \A e \in LogInputs :
          (LogInteraction(e) /\ LacksRequired(e)) =>
              /\ lastCall'.result # "ok"
              /\ logs' = logs ]_vars

\* The stored column holds the supplied value; a field that was not supplied
\* is not constrained.
SameNumber(stored, supplied) == supplied # UNDEF => stored = supplied

SameString(stored, supplied) == supplied # "undefined" => stored = supplied

\* C13: the row a successful logInteraction appends holds the supplied
\* userId, contentId, sessionId, action, progressAtAction, timeSpentSeconds,
\* deviceType, platform, abandonmentReason and cameFrom unchanged: a supplied
\* null is stored as null and a supplied 0 as 0.
C13_EventStoredVerbatim ==
    [][ \A e \in LogInputs :
          (LogInteraction(e) /\ lastCall'.result = "ok") =>
              LET row == logs'[Len(logs')] IN
              /\ Len(logs') = Len(logs) + 1
              /\ SameString(row.user_id, e.userId)
              /\ SameString(row.content_id, e.contentId)
              /\ SameString(row.session_id, e.sessionId)
              /\ SameString(row.action, e.action)
              /\ SameNumber(row.progress_at_action, e.progressAtAction)
              /\ SameNumber(row.time_spent_seconds, e.timeSpentSeconds)
              /\ SameString(row.device_type, e.deviceType)
              /\ SameString(row.platform, e.platform)
              /\ SameString(row.abandonment_reason, e.abandonmentReason)
              /\ SameString(row.came_from, e.cameFrom) ]_vars

\* e and f are the same event but for the client's timestamp.
SameButTimestamp(e, f) == [ f EXCEPT !.timestamp = e.timestamp ] = e

\* C14: every row a step appends to the interaction log carries the server's
\* clock at the write, and a logInteraction call leaves the same log whatever
\* timestamp the client put in the event.
C14_TimestampIsServerTime ==
    [][ /\ \A i \in (Len(logs) + 1)..Len(logs') :
              logs'[i].action_timestamp = clock
        /\ \A e \in LogInputs :
              LogInteraction(e) =>
                  \A f \in LogInputs :
                      SameButTimestamp(e, f) =>
                          logInteraction(logs, f, clock).logs = logs' ]_vars

\* The last row was written at server time 2 by an event whose client
\* timestamp is another time.
C14_Witness ==
    /\ lastCall.op = "logInteraction" /\ lastCall.result = "ok"
    /\ clock > 1 /\ Len(logs) > 0
    /\ \E e \in LogInputs :
          /\ e.timestamp \notin {UNDEF, clock}
          /\ logs[Len(logs)] = logData(e, clock)

\* C15: every row of the interaction log with a non-null abandonment_reason
\* has action abandon.
C15_ReasonOnlyOnAbandon ==
    \A i \in 1..Len(logs) :
        logs[i].abandonment_reason # "null" => logs[i].action = "abandon"

\* The rows of the log with this content id and action.
RowsWith(contentId, action) ==
    { i \in 1..Len(logs) :
          logs[i].content_id = contentId /\ logs[i].action = action }

\* Two quotients are the same number.
SameRatio(a, b) == a.den # 0 /\ b.den # 0 /\ a.num * b.den = b.num * a.den

\* The step is a getAbandonmentAnalytics call that returned a result.
Answered(contentId) ==
    GetAbandonmentAnalytics(contentId) /\ response'.error = "ok"

\* C16: the completionRate getAbandonmentAnalytics returns lies in [0,100]
\* and is totalCompletions / totalStarts * 100 when totalStarts > 0 and 0
\* otherwise, the totals being the numbers of start and complete rows of
\* the content.
C16_CompletionRate ==
    [][ \A c \in AnalyticsIds :
          Answered(c) =>
              LET starts == Cardinality(RowsWith(c, "start"))
                  completions == Cardinality(RowsWith(c, "complete"))
                  rate == response'.completionRate
              IN  /\ response'.totalStarts = starts
                  /\ response'.totalCompletions = completions
                  /\ rate.den > 0
                  /\ 0 <= rate.num /\ rate.num <= 100 * rate.den
                  /\ SameRatio(rate, IF starts > 0
                                     THEN Ratio(completions * 100, starts)
                                     ELSE Ratio(0, 1)) ]_vars

\* The quotient is the number 0.
IsZero(r) == r.num = 0 /\ r.den > 0

ProgressOf(i) ==
    IF logs[i].progress_at_action = NULL THEN 0 ELSE logs[i].progress_at_action

RECURSIVE SumOfProgress(_)
SumOfProgress(rows) ==
    IF rows = {} THEN 0
    ELSE LET i == CHOOSE j \in rows : TRUE
         IN  ProgressOf(i) + SumOfProgress(rows \ {i})

\* C18: avgAbandonmentPoint is the sum of progressAtAction over the abandon
\* rows of the content, null counted as 0, divided by the number of those
\* rows, and 0 when there is none.
C18_AvgAbandonmentPoint ==
    [][ \A c \in AnalyticsIds :
          Answered(c) =>
              LET abandons == RowsWith(c, "abandon") IN
              IF abandons = {}
              THEN IsZero(response'.avgAbandonmentPoint)
              ELSE SameRatio(response'.avgAbandonmentPoint,
                             Ratio(SumOfProgress(abandons),
                                   Cardinality(abandons))) ]_vars

\* The analytics of c1 were read with two abandon rows in the log, one at
\* 60 and one without progress_at_action: the mean is 60 / 2.
C18_Witness ==
    /\ response.op = "getAbandonmentAnalytics" /\ response.error = "ok"
    /\ response.contentId = "c1"
    /\ response.avgAbandonmentPoint = Ratio(60, 2)
    /\ \E i \in RowsWith("c1", "abandon") : logs[i].progress_at_action = NULL

\* The key an abandon row is counted under.
DeviceKey(i) ==
    IF logs[i].device_type = "null" THEN "unknown" ELSE logs[i].device_type

RECURSIVE SumOfCounts(_, _)
SumOfCounts(f, keys) ==
    IF keys = {} THEN 0
    ELSE LET d == CHOOSE k \in keys : TRUE
         IN  f[d] + SumOfCounts(f, keys \ {d})

\* C19: abandonmentByDevice maps every device type of an abandon row of the
\* content, "unknown" standing for a null device type, to the number of those
\* rows; its values add up to the number of abandon rows and none is 0.
C19_AbandonmentByDevice ==
    [][ \A c \in AnalyticsIds :
          Answered(c) =>
              LET abandons == RowsWith(c, "abandon")
                  byDevice == response'.abandonmentByDevice
              IN  /\ DOMAIN byDevice = { DeviceKey(i) : i \in abandons }
                  /\ \A d \in DOMAIN byDevice :
                        /\ byDevice[d] =
                              Cardinality({ i \in abandons : DeviceKey(i) = d })
                        /\ byDevice[d] > 0
                  /\ SumOfCounts(byDevice, DOMAIN byDevice) =
                        Cardinality(abandons) ]_vars

\* The analytics of c1 count one abandon row under "unknown" and one under
\* "mobile".
C19_Witness ==
    /\ response.op = "getAbandonmentAnalytics" /\ response.error = "ok"
    /\ response.contentId = "c1"
    /\ DOMAIN response.abandonmentByDevice = {"unknown", "mobile"}
    /\ response.abandonmentByDevice["unknown"] = 1
    /\ \E i \in RowsWith("c1", "abandon") : logs[i].device_type = "null"

\* C20: for a topic id that is not blank, getEffectivenessAnalytics fails
\* with "Topic not found" exactly when no Topic row has that id; a topic
\* without content gives a result with zero totals and empty most and least
\* engaged lists; and the call changes no stored row.
C20_NotFoundIffNoTopic ==
    [][ \A t \in TopicIds :
          (GetEffectivenessAnalytics(t) /\ Truthy(t)) =>
              /\ (response'.error = "Topic not found") <=>
                     (t \notin catalog.topics)
              /\ (t \in catalog.topics) => (response'.error = "ok")
              /\ ( /\ t \in catalog.topics
                   /\ \A i \in 1..Len(catalog.contentTopics) :
                         catalog.contentTopics[i].topic_id # t ) =>
                     /\ response'.totalContent = 0
                     /\ response'.totalViews = 0
                     /\ response'.totalCompletions = 0
                     /\ IsZero(response'.averageCompletionRate)
                     /\ IsZero(response'.averageTimeSpent)
                     /\ IsZero(response'.averageRating)
                     /\ response'.mostEngagedContent = << >>
                     /\ response'.leastEngagedContent = << >>
              /\ UNCHANGED <<content, progress, logs, catalog>> ]_vars

\* The analytics of t2, a topic without content, were read while another
\* topic has content and progress rows exist.
C20_Witness ==
    /\ response.op = "getEffectivenessAnalytics" /\ response.error = "ok"
    /\ response.topicId = "t2" /\ "t2" \in catalog.topics
    /\ response.totalContent = 0
    /\ Len(catalog.contentTopics) > 0
    /\ progress # {}

\* The fetched content of topic t, in fetch order, and a rating with a
\* missing one counted as 0.
Fetched(t) ==
    SelectSeq(catalog.contentTopics, LAMBDA ct : ct.topic_id = t)

RatingAt(t, i) ==
    IF catalog.stats[Fetched(t)[i].content_id].rating_average = NULL THEN 0
    ELSE catalog.stats[Fetched(t)[i].content_id].rating_average

\* The place of fetched item i among the items of t ranked by rating, ties in
\* fetch order.
RankDescending(t, i) ==
    1 + Cardinality({ j \in 1..Len(Fetched(t)) :
                        \/ RatingAt(t, j) > RatingAt(t, i)
                        \/ RatingAt(t, j) = RatingAt(t, i) /\ j < i })

RankAscending(t, i) ==
    1 + Cardinality({ j \in 1..Len(Fetched(t)) :
                        \/ RatingAt(t, j) < RatingAt(t, i)
                        \/ RatingAt(t, j) = RatingAt(t, i) /\ j < i })

\* The entry of a list is the fetched item i with its own completion rate.
EntryIs(entry, t, i) ==
    LET c == Fetched(t)[i].content_id IN
    /\ entry.id = c
    /\ entry.averageRating = RatingAt(t, i)
    /\ IF catalog.stats[c].view_count = 0 THEN IsZero(entry.completionRate)
       ELSE SameRatio(entry.completionRate,
                      Ratio(catalog.stats[c].completion_count * 100,
                            catalog.stats[c].view_count))

TopFive(n) == IF n < 5 THEN n ELSE 5

\* C21: mostEngagedContent is the first 5 items of the topic by rating
\* descending and leastEngagedContent the first 5 by rating ascending, a
\* missing rating counted as 0 and ties kept in fetch order, each entry with
\* completion_count / view_count * 100, or 0 when view_count is 0.
C21_MostAndLeastEngaged ==
    [][ \A t \in TopicIds :
          (GetEffectivenessAnalytics(t) /\ response'.error = "ok") =>
              LET most == response'.mostEngagedContent
                  least == response'.leastEngagedContent
                  n == Len(Fetched(t))
              IN  /\ Len(most) = TopFive(n)
                  /\ Len(least) = TopFive(n)
                  /\ \A i \in 1..n :
                        /\ RankDescending(t, i) <= 5 =>
                              EntryIs(most[RankDescending(t, i)], t, i)
                        /\ RankAscending(t, i) <= 5 =>
                              EntryIs(least[RankAscending(t, i)], t, i) ]_vars

\* The lists of t1 were cut to 5 of its items, and two items of the same
\* rating stand in both lists in fetch order.
C21_Witness ==
    /\ response.op = "getEffectivenessAnalytics" /\ response.error = "ok"
    /\ response.totalContent > 5
    /\ Len(response.mostEngagedContent) = 5
    /\ \E i, j \in 1..5 :
          /\ i < j
          /\ response.mostEngagedContent[i].averageRating =
                response.mostEngagedContent[j].averageRating
          /\ \E k, l \in 1..5 :
                /\ k < l
                /\ response.leastEngagedContent[k].id =
                      response.mostEngagedContent[i].id
                /\ response.leastEngagedContent[l].id =
                      response.mostEngagedContent[j].id

\* The content ids associated with topic t.
ContentOfTopic(t) ==
    { catalog.contentTopics[i].content_id :
          i \in { j \in 1..Len(catalog.contentTopics) :
                      catalog.contentTopics[j].topic_id = t } }

RECURSIVE SumOfColumn(_, _)
SumOfColumn(ids, column) ==
    IF ids = {} THEN 0
    ELSE LET c == CHOOSE x \in ids : TRUE
         IN  catalog.stats[c][column] + SumOfColumn(ids \ {c}, column)

RECURSIVE SumOfTime(_)
SumOfTime(rows) ==
    IF rows = {} THEN 0
    ELSE LET r == CHOOSE x \in rows : TRUE
         IN  r.time_spent_seconds + SumOfTime(rows \ {r})

\* C22: for an existing topic getEffectivenessAnalytics returns the number
\* of associated content items, the sums of their view_count and
\* completion_count, totalCompletions / totalViews * 100 (0 when totalViews
\* is 0) and the mean of time_spent_seconds over the progress rows of those
\* items (0 when there is none).
C22_TopicTotals ==
    [][ \A t \in TopicIds :
          (GetEffectivenessAnalytics(t) /\ response'.error = "ok") =>
              LET ids == ContentOfTopic(t)
                  views == SumOfColumn(ids, "view_count")
                  completions == SumOfColumn(ids, "completion_count")
                  rows == { r \in progress : r.content_id \in ids }
              IN  /\ response'.totalContent = Cardinality(ids)
                  /\ response'.totalViews = views
                  /\ response'.totalCompletions = completions
                  /\ IF views = 0
                     THEN IsZero(response'.averageCompletionRate)
                     ELSE SameRatio(response'.averageCompletionRate,
                                    Ratio(completions * 100, views))
                  /\ IF rows = {}
                     THEN IsZero(response'.averageTimeSpent)
                     ELSE SameRatio(response'.averageTimeSpent,
                                    Ratio(SumOfTime(rows),
                                          Cardinality(rows))) ]_vars

\* The analytics of t1 were read over two content items with views and
\* completions and two progress rows, of 30 and 0 seconds.
C22_Witness ==
    /\ response.op = "getEffectivenessAnalytics" /\ response.error = "ok"
    /\ response.topicId = "t1"
    /\ response.totalContent = 2
    /\ response.totalViews = 30
    /\ response.totalCompletions = 5
    /\ response.averageTimeSpent = Ratio(30, 2)

\* The step is a findProblematicContent call, of the service or of the
\* repository, that returned a result: only these calls write such a
\* response.
Found ==
    /\ response' # response
    /\ response'.op = "findProblematicContent"
    /\ response'.error = "ok"

Published == { c \in content : catalog.stats[c].is_published }

\* The completion rate of content c: COMPLETED progress rows over views,
\* times 100, and 0 without views.
RateOf(c) ==
    IF catalog.stats[c].view_count = 0 THEN Ratio(0, 1)
    ELSE Ratio(100 * Cardinality({ r \in progress :
                                     r.content_id = c /\ r.status = "COMPLETED" }),
               catalog.stats[c].view_count)

ReturnedIds(items) == { items[i].contentId : i \in 1..Len(items) }

\* The sets of published items a fetch of at most limit rows can bring.
Windows(limit) ==
    { W \in SUBSET Published :
          Cardinality(W) = IF Cardinality(Published) < limit
                           THEN Cardinality(Published) ELSE limit }

\* C23: findProblematicContent returns exactly the published items of the
\* fetch window whose completionRate is strictly below the threshold: no
\* returned item has a rate at or above it and no fetched item below it is
\* left out.
C23_ExactlyBelowThreshold ==
    [][ Found =>
          LET items == response'.items
              thr == response'.threshold
          IN  /\ \A i \in 1..Len(items) :
                    /\ Below(items[i].completionRate, thr)
                    /\ SameRatio(items[i].completionRate,
                                 RateOf(items[i].contentId))
              /\ \A i, j \in 1..Len(items) :
                    items[i].contentId = items[j].contentId => i = j
              /\ \E W \in Windows(response'.limit) :
                    ReturnedIds(items) = { c \in W : Below(RateOf(c), thr) }
        ]_vars

\* The report was read with threshold 40 while one published item stands at
\* exactly 40 and another below: only the one below is returned.
C23_Witness ==
    /\ response.op = "findProblematicContent" /\ response.error = "ok"
    /\ response.threshold = 40 /\ response.limit = FetchLimit
    /\ Len(response.items) = 1
    /\ \E c \in Published :
          /\ RateOf(c) = Ratio(200, 5)
          /\ c \notin ReturnedIds(response.items)

\* The tier of a completion rate, and how severe a tier is.
TierOf(rate) ==
    CASE Below(rate, 20) -> "CRITICO"
      [] ~Below(rate, 20) /\ Below(rate, 40) -> "ALTO"
      [] ~Below(rate, 40) /\ Below(rate, 60) -> "MEDIO"
      [] OTHER -> "BAJO"

Severity(priority) ==
    CASE priority = "CRITICO" -> 3
      [] priority = "ALTO" -> 2
      [] priority = "MEDIO" -> 1
      [] priority = "BAJO" -> 0

\* C24: every item findProblematicContent returns carries the tier of its
\* completionRate: CRITICO below 20, ALTO from 20 and below 40, MEDIO from 40
\* and below 60, BAJO from 60; so of two items the one with the lower rate
\* never has the less severe tier.
C24_PriorityByRate ==
    [][ Found =>
          LET items == response'.items IN
          /\ \A i \in 1..Len(items) :
                /\ SameRatio(items[i].completionRate,
                             RateOf(items[i].contentId))
                /\ items[i].priority = TierOf(items[i].completionRate)
          /\ \A i, j \in 1..Len(items) :
                items[i].completionRate.num * items[j].completionRate.den
                    <= items[j].completionRate.num * items[i].completionRate.den
                => Severity(items[i].priority) >= Severity(items[j].priority)
        ]_vars

\* The report holds an item at exactly 20, which is ALTO, next to a CRITICO
\* item.
C24_Witness ==
    /\ response.op = "findProblematicContent" /\ response.error = "ok"
    /\ \E i, j \in 1..Len(response.items) :
          /\ response.items[i].completionRate = Ratio(200, 10)
          /\ response.items[i].priority = "ALTO"
          /\ response.items[j].priority = "CRITICO"

\* C25: a findProblematicContent call, by either definition of the
\* repository method, computes the completionRate of every published item as
\* the number of its COMPLETED progress rows over view_count times 100, and 0
\* without views: every item whose rate is below the threshold is reported
\* with that rate.
C25_RateCountsCompletedRows ==
    [][ ( /\ response' # response
          /\ response'.op = "findProblematicContent"
          /\ response'.limit = FetchLimit ) =>
            /\ response'.error = "ok"
            /\ \A c \in Published :
                  Below(RateOf(c), response'.threshold) =>
                      \E i \in 1..Len(response'.items) :
                          /\ response'.items[i].contentId = c
                          /\ SameRatio(response'.items[i].completionRate,
                                       RateOf(c)) ]_vars

\* The clause the mean progress of the abandon rows of content c calls for.
ClauseOf(c) ==
    LET abandons == RowsWith(c, "abandon") IN
    IF abandons = {} THEN << >>
    ELSE IF SumOfProgress(abandons) < 25 * Cardinality(abandons)
    THEN << "Los usuarios abandonan al inicio. Mejorar la introduccion." >>
    ELSE IF SumOfProgress(abandons) > 75 * Cardinality(abandons)
    THEN << "Los usuarios abandonan al final. Considerar acortar o hacer mas atractivo el final." >>
    ELSE << >>

\* C26: the recommendation of every item the service's findProblematicContent
\* returns is the seed text of its tier, followed by the early-abandonment
\* clause when the mean progressAtAction of the item's abandon events is
\* below 25, by the late-abandonment clause when it is above 75, and by
\* nothing otherwise.
C26_RecommendationClause ==
    [][ (Found /\ response'.layer = "service") =>
          \A i \in 1..Len(response'.items) :
              response'.items[i].recommendation =
                  << seedOf(response'.items[i].completionRate) >>
                  \o ClauseOf(response'.items[i].contentId) ]_vars

\* The published items among the first rows the store returns: item
\* FetchOrder[i] is fetched when fewer than limit published items precede it.
FetchedWithin(limit) ==
    { FetchOrder[i] :
        i \in { j \in 1..Len(FetchOrder) :
                  /\ FetchOrder[j] \in Published
                  /\ Cardinality({ k \in 1..(j - 1) :
                                      FetchOrder[k] \in Published }) < limit } }

\* C27: the limit of findProblematicContent bounds the fetch, before the
\* filter: the result has at most limit items, every returned item is one of
\* the at most limit published items fetched, a fetched item below the
\* threshold is returned, and no unpublished item is returned.
C27_LimitBoundsTheFetch ==
    [][ Found =>
          LET ids == ReturnedIds(response'.items)
              window == FetchedWithin(response'.limit)
          IN  /\ Len(response'.items) <= response'.limit
              /\ Cardinality(window) <= response'.limit
              /\ ids = { c \in window : Below(RateOf(c), response'.threshold) }
              /\ \A c \in ids : catalog.stats[c].is_published ]_vars

\* A fetch of one row brought an item that is not below the threshold: the
\* result is empty although another published item is below it, and an
\* unpublished item is below it too.
C27_Witness ==
    /\ response.op = "findProblematicContent" /\ response.error = "ok"
    /\ response.limit = 1
    /\ response.items = << >>
    /\ \E c \in Published : Below(RateOf(c), response.threshold)
    /\ \E c \in content \ Published : Below(RateOf(c), response.threshold)

\* What getAbandonmentAnalytics answers for content x on a log.
AnalyticsOn(table, x) == getAbandonmentAnalytics(table, x)

AbandonCount(a) ==
    SumOfCounts(a.abandonmentByDevice, DOMAIN a.abandonmentByDevice)

\* C28: a logInteraction call for content c leaves the abandonment analytics
\* of every other content id as they were and moves those of c by one unit:
\* a start event adds 1 to totalStarts, a complete event 1 to
\* totalCompletions, an abandon event 1 to the abandon rows counted in
\* abandonmentByDevice, a pause event nothing; and a getAbandonmentAnalytics
\* call changes no stored row.
C28_LoggingMovesOneCounter ==
    [][ /\ \A e \in AnalyticsInputs :
              (LogInteraction(e) /\ lastCall'.result = "ok") =>
                  LET before == AnalyticsOn(logs, e.contentId)
                      after == AnalyticsOn(logs', e.contentId)
                      bump(action) == IF e.action = action THEN 1 ELSE 0
                  IN  /\ \A x \in ContentIds \ {e.contentId} :
                            AnalyticsOn(logs', x) = AnalyticsOn(logs, x)
                      /\ after.totalStarts = before.totalStarts + bump("start")
                      /\ after.totalCompletions =
                            before.totalCompletions + bump("complete")
                      /\ AbandonCount(after) =
                            AbandonCount(before) + bump("abandon")
                      /\ e.action # "abandon" =>
                            /\ after.abandonmentByDevice =
                                  before.abandonmentByDevice
                            /\ after.avgAbandonmentPoint =
                                  before.avgAbandonmentPoint
                      /\ e.action \notin {"start", "complete", "abandon"} =>
                            after = before
        /\ \A c \in AnalyticsIds :
              GetAbandonmentAnalytics(c) =>
                  UNCHANGED <<content, progress, logs, catalog>> ]_vars

\* A pause event of c1 was logged last, after events of c1 and of c9.
C28_Witness ==
    /\ lastCall.op = "logInteraction" /\ lastCall.result = "ok"
    /\ Len(logs) = 3
    /\ logs[3].action = "pause" /\ logs[3].content_id = "c1"
    /\ logs[2].content_id = "c9"
    /\ logs[1].action = "abandon" /\ logs[1].content_id = "c1"

\* The access times of a row are in order: it was first accessed no later
\* than it was last accessed, and a completion lies between the two.
InOrder(r) ==
    /\ r.first_accessed_at # NULL
    /\ r.last_accessed_at # NULL
    /\ r.first_accessed_at <= r.last_accessed_at
    /\ r.completed_at # NULL =>
           /\ r.first_accessed_at <= r.completed_at
           /\ r.completed_at <= r.last_accessed_at

\* Calls that run one after another: a row's first_accessed_at is the time of
\* the call that created it and never changes, its last_accessed_at is the
\* time of the most recent call for its pair, and the three times are in
\* order.
SequentialAccessTimes ==
    [][ /\ \A r \in progress' : InOrder(r)
        /\ \A r \in progress :
              \A q \in RowsOf(progress', r.user_id, r.content_id) :
                 q.first_accessed_at = r.first_accessed_at
        /\ (Called("trackProgress") /\ lastCall'.result = "ok") =>
              LET row == Row(progress', lastCall'.userId, lastCall'.contentId)
              IN  /\ row.last_accessed_at = clock
                  /\ lastCall'.created => row.first_accessed_at = clock
                  /\ \A r \in progress :
                        <<r.user_id, r.content_id>> #
                            <<lastCall'.userId, lastCall'.contentId>>
                        => r \in progress' ]_vars

\* A row completed on its first call was reported again at a later time.
SequentialAccessTimesWitness ==
    /\ lastCall.op = "trackProgress"
    /\ lastCall.result = "ok"
    /\ ~lastCall.created
    /\ \E r \in RowsOf(progress, lastCall.userId, lastCall.contentId) :
          /\ r.completed_at # NULL
          /\ r.first_accessed_at = r.completed_at
          /\ r.completed_at < r.last_accessed_at

\* C29: in every state reachable by trackProgress calls, overlapping requests
\* included, each row has first_accessed_at <= last_accessed_at, and
\* first_accessed_at <= completed_at <= last_accessed_at whenever
\* completed_at is non-null.
C29_AccessTimesInOrder ==
    \A r \in progress : InOrder(r)

\* The primary associations of a content item.
PrimaryOf(contentId) ==
    { i \in DOMAIN catalog.contentTopics :
        /\ catalog.contentTopics[i].content_id = contentId
        /\ catalog.contentTopics[i].is_primary }

\* C30: once every request of an interleaving of addTopicToContent(c, t,
\* isPrimary = true) and setPrimaryTopic(c, t) calls has returned, content c
\* has at most one topic association with is_primary = true.
C30_AtMostOnePrimary ==
    (\A i \in Requests : inflight[i].pc = "done")
        => Cardinality(PrimaryOf("c1")) <= 1

====
